---------------------------- MODULE Spec2Model ----------------------------
(***************************************************************************)
(* A model of the raster window extractor of the Urban Climate Explorer    *)
(* dashboard (src/utils/raster_utils.py): the lon/lat <-> pixel transform, *)
(* the window computation of extract_raster_for_geometry and its two       *)
(* wrappers, the slice taken from the loaded dataset, the projector        *)
(* geometry_to_pixel_coords, the dataset loader of src/utils/data_loader.py *)
(* the raster sections of the pages that call them, the table filter       *)
(* filter_data and the drawn-area parser parse_drawn_geometry.  Each       *)
(* component has its own specification over the same variables.            *)
(*                                                                         *)
(* Numbers.  The code computes in Python floats.  The model computes the   *)
(* same expressions in exact rational arithmetic: a float is a pair        *)
(* <<n, d>> in lowest terms with d > 0, and <<0, 0>> is NaN.  Rounding of  *)
(* the floating-point unit is therefore not modelled; the order of the     *)
(* operations, the truncation by int() and Python's min()/max() (which     *)
(* compare, and so let NaN through or drop it by position) are.            *)
(*                                                                         *)
(* Python objects are records carrying the attributes the code probes      *)
(* with hasattr(); None is a record of type NoneType.                      *)
(***************************************************************************)
EXTENDS Integers, Sequences, FiniteSets, TLC

VARIABLES
    ds,     \* the loaded dataset handed to every extraction call
    query,  \* the study area of the session: the geometry argument of its calls
    last,   \* the most recent extraction call: its arguments and how it ended
    prev,   \* the call before it, when it was the same function on the same variable
    tr,     \* the coordinate pair being converted by the transform
    proj,   \* the most recent geometry_to_pixel_coords call: its arguments and how it ended
    memo,   \* an earlier extraction call whose result the caller has kept
    store,  \* the cached dataset file and, per server process, the loader's position and cache
    calls,  \* per session thread, the extraction call in flight: its position and locals
    page,   \* the page being rendered: the section reached and what each section showed
    flt,    \* the filter_data call on the analysis table and the calls that followed it
    drawn   \* the most recent parse_drawn_geometry call: the map data and how it ended

vars == <<ds, query, last, prev, tr, proj, memo, store, calls, page, flt, drawn>>

---------------------------------------------------------------------------
(* Bounds of the model *)

\* buffer_km ranges over 0, 5, ..., 5 * MaxBufferSteps (the pages pass 5 and 20)
MaxBufferSteps == 4

\* a GeoDataFrame argument has 0 .. MaxRows rows
MaxRows == 2

\* the transform is exercised on a (MaxGridSteps+1) x (MaxGridSteps+1) lattice
\* of points spread over the Grid extent
MaxGridSteps == 8

\* the number of chunks the download of the dataset file is written in
FileChunks == 2

\* the analysis table handed to filter_data has 0 .. MaxTableRows rows
MaxTableRows == 2

\* the map component reports 0 .. MaxDrawings drawings
MaxDrawings == 2

---------------------------------------------------------------------------
(* Program constants: src/utils/raster_utils.py lines 41-43 *)

CONUS_LON_MIN == -125
CONUS_LON_MAX == -66
CONUS_LAT_MIN == 24
CONUS_LAT_MAX == 50
GRID_WIDTH == 6435
GRID_HEIGHT == 2767

---------------------------------------------------------------------------
(* Python floats as exact rationals *)

RECURSIVE GCD(_, _)
GCD(a, b) == IF b = 0 THEN a ELSE GCD(b, a % b)

Abs(x) == IF x < 0 THEN -x ELSE x

NaN == <<0, 0>>

IsNaN(a) == a[2] = 0

\* n / d in lowest terms, d # 0
Rat(n, d) ==
    LET g == GCD(Abs(n), Abs(d))
        s == IF d < 0 THEN -1 ELSE 1
    IN  <<(s * n) \div g, (s * d) \div g>>

FInt(k) == <<k, 1>>

FAdd(a, b) ==
    IF IsNaN(a) \/ IsNaN(b) THEN NaN
    ELSE Rat(a[1] * b[2] + b[1] * a[2], a[2] * b[2])

FSub(a, b) ==
    IF IsNaN(a) \/ IsNaN(b) THEN NaN
    ELSE Rat(a[1] * b[2] - b[1] * a[2], a[2] * b[2])

\* the common factors are cancelled before the products are formed
FMul(a, b) ==
    IF IsNaN(a) \/ IsNaN(b) THEN NaN
    ELSE LET g == GCD(Abs(a[1]), b[2])
             h == GCD(Abs(b[1]), a[2])
         IN  Rat((a[1] \div g) * (b[1] \div h), (a[2] \div h) * (b[2] \div g))

\* b is never zero where the code divides (111.0, the Grid's extent and size)
FDiv(a, b) ==
    IF IsNaN(a) \/ IsNaN(b) THEN NaN
    ELSE Rat(a[1] * b[2], a[2] * b[1])

\* a < b; every comparison with NaN is false
FLess(a, b) == ~IsNaN(a) /\ ~IsNaN(b) /\ a[1] * b[2] < b[1] * a[2]

FLeq(a, b) == ~IsNaN(a) /\ ~IsNaN(b) /\ a[1] * b[2] <= b[1] * a[2]

\* Python's min(a, b): the first argument unless the second is smaller
PyMin(a, b) == IF FLess(b, a) THEN b ELSE a

\* Python's max(a, b): the first argument unless the second is larger
PyMax(a, b) == IF FLess(a, b) THEN b ELSE a

\* Python's int(a) on a finite float: truncation toward zero
PyInt(a) == IF a[1] >= 0 THEN a[1] \div a[2] ELSE -((-a[1]) \div a[2])

---------------------------------------------------------------------------
(* Python objects *)

None == [type |-> "NoneType"]

hasattr(obj, name) == name \in DOMAIN obj

\* shapely.geometry.Polygon(ring): only the exterior ring matters here
Polygon(ring) == [type |-> "Polygon", exterior |-> ring]

\* shapely.geometry.Point
Point(p) == [type |-> "Point", coords |-> <<p>>]

\* shapely.geometry.LineString
LineString(points) == [type |-> "LineString", coords |-> points]

\* shapely.geometry.MultiPolygon: its parts are under .geoms; it has neither
\* .exterior nor a usable .coords
MultiPolygon(parts) == [type |-> "MultiPolygon", geoms |-> parts]

\* shapely.geometry.box(minx, miny, maxx, maxy): a counter-clockwise, closed ring
box(minx, miny, maxx, maxy) ==
    Polygon(<< <<maxx, miny>>, <<maxx, maxy>>, <<minx, maxy>>,
               <<minx, miny>>, <<maxx, miny>> >>)

\* a GeoDataFrame: its geometry column has .iloc
GeoDataFrame(rows) ==
    [type |-> "GeoDataFrame", geometry |-> [type |-> "GeoSeries", iloc |-> rows]]

\* the exterior rings of the parts i.. of a multi-part geometry, one after another
RECURSIVE PartCoords(_, _)
PartCoords(parts, i) ==
    IF i > Len(parts) THEN <<>> ELSE parts[i].exterior \o PartCoords(parts, i + 1)

\* the coordinate sequence shapely takes a geometry's bounds from
CoordsOf(geom) ==
    IF hasattr(geom, "exterior") THEN geom.exterior
    ELSE IF hasattr(geom, "coords") THEN geom.coords
    ELSE IF hasattr(geom, "geoms") THEN PartCoords(geom.geoms, 1)
    ELSE <<>>

RECURSIVE FoldMin(_, _, _)
FoldMin(seq, k, i) ==
    IF i > Len(seq) THEN NaN
    ELSE IF i = Len(seq) THEN seq[i][k]
    ELSE LET rest == FoldMin(seq, k, i + 1)
         IN  IF FLess(seq[i][k], rest) THEN seq[i][k] ELSE rest

RECURSIVE FoldMax(_, _, _)
FoldMax(seq, k, i) ==
    IF i > Len(seq) THEN NaN
    ELSE IF i = Len(seq) THEN seq[i][k]
    ELSE LET rest == FoldMax(seq, k, i + 1)
         IN  IF FLess(rest, seq[i][k]) THEN seq[i][k] ELSE rest

\* geom.bounds = (minx, miny, maxx, maxy); for an empty geometry shapely 2
\* gives four NaN (shapely 1 gave an empty tuple, which is not modelled)
Bounds(geom) ==
    LET cs == CoordsOf(geom)
    IN  <<FoldMin(cs, 1, 1), FoldMin(cs, 2, 1), FoldMax(cs, 1, 1), FoldMax(cs, 2, 1)>>


---------------------------------------------------------------------------
(* Coordinate transform *)

\* a slip that scales longitude by the number of rows and latitude by the number of columns
lonlat_to_pixel_SwapSize(lon, lat) ==
    LET px == FMul(FDiv(FSub(lon, FInt(CONUS_LON_MIN)),
                        FInt(CONUS_LON_MAX - CONUS_LON_MIN)), FInt(GRID_HEIGHT))
        py == FMul(FDiv(FSub(FInt(CONUS_LAT_MAX), lat),
                        FInt(CONUS_LAT_MAX - CONUS_LAT_MIN)), FInt(GRID_WIDTH))
    IN  <<px, py>>

\* a slip that counts rows northward from the southern edge
lonlat_to_pixel_NoFlip(lon, lat) ==
    LET px == FMul(FDiv(FSub(lon, FInt(CONUS_LON_MIN)),
                        FInt(CONUS_LON_MAX - CONUS_LON_MIN)), FInt(GRID_WIDTH))
        py == FMul(FDiv(FSub(lat, FInt(CONUS_LAT_MIN)),
                        FInt(CONUS_LAT_MAX - CONUS_LAT_MIN)), FInt(GRID_HEIGHT))
    IN  <<px, py>>

lonlat_to_pixel(lon, lat) ==
    LET px == FMul(FDiv(FSub(lon, FInt(CONUS_LON_MIN)),
                        FInt(CONUS_LON_MAX - CONUS_LON_MIN)), FInt(GRID_WIDTH))
        py == FMul(FDiv(FSub(FInt(CONUS_LAT_MAX), lat),
                        FInt(CONUS_LAT_MAX - CONUS_LAT_MIN)), FInt(GRID_HEIGHT))
    IN  <<px, py>>

\* a slip that forgets that rows count southward from the northern edge
pixel_to_lonlat_NoFlip(px, py) ==
    LET lon == FAdd(FInt(CONUS_LON_MIN),
                    FMul(FDiv(px, FInt(GRID_WIDTH)), FInt(CONUS_LON_MAX - CONUS_LON_MIN)))
        lat == FAdd(FInt(CONUS_LAT_MIN),
                    FMul(FDiv(py, FInt(GRID_HEIGHT)), FInt(CONUS_LAT_MAX - CONUS_LAT_MIN)))
    IN  <<lon, lat>>

pixel_to_lonlat(px, py) ==
    LET lon == FAdd(FInt(CONUS_LON_MIN),
                    FMul(FDiv(px, FInt(GRID_WIDTH)), FInt(CONUS_LON_MAX - CONUS_LON_MIN)))
        lat == FSub(FInt(CONUS_LAT_MAX),
                    FMul(FDiv(py, FInt(GRID_HEIGHT)), FInt(CONUS_LAT_MAX - CONUS_LAT_MIN)))
    IN  <<lon, lat>>

---------------------------------------------------------------------------
(* The dataset and its arrays *)

\* an xarray Dataset: the names of its data variables, each a 2-D array over
\* the dimensions y (rows) and x (columns)
Dataset(names) ==
    [type |-> "Dataset", data_vars |-> names,
     sizes |-> [y |-> GRID_HEIGHT, x |-> GRID_WIDTH]]

\* ds[variable_name]
DataArray(dataset, variable_name) ==
    [type |-> "DataArray", name |-> variable_name, sizes |-> dataset.sizes]

\* the value the dataset holds for a variable at row r, column c.  Contents are
\* opaque to the extractor, so a cell's value is modelled by the cell's identity.
SourceElement(variable_name, r, c) == <<variable_name, r, c>>

Min2(a, b) == IF a < b THEN a ELSE b

Max2(a, b) == IF a > b THEN a ELSE b

\* slice(start, stop) applied to a dimension of the given size, for start and
\* stop >= 0: the half-open index range it selects
SliceRange(start, stop, size) ==
    LET lo == Min2(start, size)
        hi == Max2(lo, Min2(stop, size))
    IN  <<lo, hi>>

\* a slip that slices rows with the column range and columns with the row range
IselValues_Swapped(da, x_min, x_max, y_min, y_max) ==
    LET xs == SliceRange(y_min, y_max, da.sizes.x)
        ys == SliceRange(x_min, x_max, da.sizes.y)
    IN  [type |-> "ndarray", variable |-> da.name,
         shape |-> <<ys[2] - ys[1], xs[2] - xs[1]>>,
         origin |-> <<ys[1], xs[1]>>]

\* da.isel(x=slice(x_min, x_max), y=slice(y_min, y_max)).values: a numpy array
\* of shape (rows, columns) whose element (0, 0) is the source's element at origin
IselValues(da, x_min, x_max, y_min, y_max) ==
    LET xs == SliceRange(x_min, x_max, da.sizes.x)
        ys == SliceRange(y_min, y_max, da.sizes.y)
    IN  [type |-> "ndarray", variable |-> da.name,
         shape |-> <<ys[2] - ys[1], xs[2] - xs[1]>>,
         origin |-> <<ys[1], xs[1]>>]

\* data[r, c] of a returned array, 0 <= r < rows, 0 <= c < columns
Element(data, r, c) ==
    SourceElement(data.variable, data.origin[1] + r, data.origin[2] + c)

---------------------------------------------------------------------------
(* How a call ends, and what it returns *)

Return(v) == [outcome |-> "return", exc |-> "", value |-> v]

Raise(e) == [outcome |-> "raise", exc |-> e, value |-> None]

\* the 3-tuple the extraction functions return
Triple(data, pixel_bounds, geom) ==
    [data |-> data, pixel_bounds |-> pixel_bounds, geom |-> geom]

NullTriple == Triple(None, None, None)

\* the tuple (x_min, x_max, y_min, y_max)
Tuple4(a, b, c, d) == [type |-> "tuple", items |-> <<a, b, c, d>>]

---------------------------------------------------------------------------
(* extract_raster_for_geometry, step by step *)


\* a slip that takes the last row of a container
ResolveGeometry_LastRow(geometry) ==
    IF hasattr(geometry, "geometry")
    THEN IF hasattr(geometry.geometry, "iloc")
         THEN IF Len(geometry.geometry.iloc) = 0
              THEN Raise("IndexError")
              ELSE Return(geometry.geometry.iloc[Len(geometry.geometry.iloc)])
         ELSE Return(geometry.geometry)
    ELSE Return(geometry)

\* "Get geometry in WGS84": a container gives its first row, iloc[0] of an
\* empty column raises IndexError
ResolveGeometry(geometry) ==
    IF hasattr(geometry, "geometry")
    THEN IF hasattr(geometry.geometry, "iloc")
         THEN IF Len(geometry.geometry.iloc) = 0
              THEN Raise("IndexError")
              ELSE Return(geometry.geometry.iloc[1])
         ELSE Return(geometry.geometry)
    ELSE Return(geometry)

\* whether geom.bounds exists: it does on shapely geometries, not on None
HasBounds(geom) == geom.type \in {"Polygon", "Point", "LineString", "MultiPolygon"}

\* a slip that pulls the box in by the buffer instead of pushing it out
BufferedBounds_Shrink(bounds, buffer_km) ==
    LET buffer_deg == FDiv(FInt(buffer_km), FInt(111))
    IN  [lon_min |-> FAdd(bounds[1], buffer_deg),
         lon_max |-> FSub(bounds[3], buffer_deg),
         lat_min |-> FAdd(bounds[2], buffer_deg),
         lat_max |-> FSub(bounds[4], buffer_deg)]

\* "Add buffer in degrees (approximate: 1 degree ~ 111km)"
BufferedBounds(bounds, buffer_km) ==
    LET buffer_deg == FDiv(FInt(buffer_km), FInt(111))
    IN  [lon_min |-> FSub(bounds[1], buffer_deg),
         lon_max |-> FAdd(bounds[3], buffer_deg),
         lat_min |-> FSub(bounds[2], buffer_deg),
         lat_max |-> FAdd(bounds[4], buffer_deg)]

\* a slip that forgets min(..., size - 1)
ClampIndex_NoUpper(v, size) == PyInt(PyMax(FInt(0), v))

\* a slip that clamps to size instead of size - 1
ClampIndex_ToSize(v, size) == PyInt(PyMax(FInt(0), PyMin(v, FInt(size))))

\* int(max(0, min(v, size - 1)))
ClampIndex(v, size) == PyInt(PyMax(FInt(0), PyMin(v, FInt(size - 1))))

\* a slip that pairs the corners the other way: south-west for the minima,
\* north-east for the maxima
PixelWindow_SouthWest(bb) ==
    LET sw == lonlat_to_pixel(bb.lon_min, bb.lat_min)
        ne == lonlat_to_pixel(bb.lon_max, bb.lat_max)
        x_min == ClampIndex(sw[1], GRID_WIDTH)
        x_max == ClampIndex(ne[1], GRID_WIDTH)
        y_min == ClampIndex(sw[2], GRID_HEIGHT)
        y_max == ClampIndex(ne[2], GRID_HEIGHT)
    IN  <<x_min, x_max, y_min, y_max>>

\* "Convert to pixels" and "Clamp to grid": <<x_min, x_max, y_min, y_max>>
PixelWindow(bb) ==
    LET nw == lonlat_to_pixel(bb.lon_min, bb.lat_max)
        se == lonlat_to_pixel(bb.lon_max, bb.lat_min)
        x_min == ClampIndex(nw[1], GRID_WIDTH)
        x_max == ClampIndex(se[1], GRID_WIDTH)
        y_min == ClampIndex(nw[2], GRID_HEIGHT)
        y_max == ClampIndex(se[2], GRID_HEIGHT)
    IN  <<x_min, x_max, y_min, y_max>>

\* a slip that writes < for <=
IsDegenerate_Strict(w) == w[2] < w[1] \/ w[4] < w[3]

\* a slip that tests the columns only
IsDegenerate_ColumnsOnly(w) == w[2] <= w[1]

\* x_max <= x_min or y_max <= y_min
IsDegenerate(w) == w[2] <= w[1] \/ w[4] <= w[3]

\* a slip that never looks the variable up in data_vars
ExtractData_AnyVariable(dataset, variable_name, w, geom) ==
    Triple(IselValues(DataArray(dataset, variable_name), w[1], w[2], w[3], w[4]),
           Tuple4(w[1], w[2], w[3], w[4]), geom)

\* a slip that leaves the window in the result when the variable is missing
ExtractData_KeepWindow(dataset, variable_name, w, geom) ==
    IF variable_name \in dataset.data_vars
    THEN Triple(IselValues(DataArray(dataset, variable_name), w[1], w[2], w[3], w[4]),
                Tuple4(w[1], w[2], w[3], w[4]), geom)
    ELSE Triple(None, Tuple4(w[1], w[2], w[3], w[4]), geom)

\* a slip that places the window by the variable: one column further east for
\* the vegetation index
ExtractData_ShiftByVariable(dataset, variable_name, w, geom) ==
    IF variable_name \in dataset.data_vars
    THEN LET s == IF variable_name = "NDVI_mean_2015" THEN 1 ELSE 0
         IN  Triple(IselValues(DataArray(dataset, variable_name),
                               w[1] + s, w[2] + s, w[3], w[4]),
                    Tuple4(w[1] + s, w[2] + s, w[3], w[4]), geom)
    ELSE NullTriple

\* "Extract data": the slice, the window and the geometry, or three None
ExtractData(dataset, variable_name, w, geom) ==
    IF variable_name \in dataset.data_vars
    THEN Triple(IselValues(DataArray(dataset, variable_name), w[1], w[2], w[3], w[4]),
                Tuple4(w[1], w[2], w[3], w[4]), geom)
    ELSE NullTriple

\* a slip that leaves out the test for a degenerate window
extract_raster_for_geometry_NoCheck(dataset, variable_name, geometry, buffer_km) ==
    LET g == ResolveGeometry(geometry)
    IN  IF g.outcome = "raise" THEN g
        ELSE IF ~HasBounds(g.value) THEN Raise("AttributeError")
        ELSE LET geom == g.value
                 w == PixelWindow(BufferedBounds(Bounds(geom), buffer_km))
             IN  Return(ExtractData(dataset, variable_name, w, geom))

\* a slip that hands back the buffered box used for slicing instead of the geometry
extract_raster_for_geometry_ReturnsBox(dataset, variable_name, geometry, buffer_km) ==
    LET g == ResolveGeometry(geometry)
    IN  IF g.outcome = "raise" THEN g
        ELSE IF ~HasBounds(g.value) THEN Raise("AttributeError")
        ELSE LET bb == BufferedBounds(Bounds(g.value), buffer_km)
                 w == PixelWindow(bb)
             IN  IF IsDegenerate(w) THEN Return(NullTriple)
                 ELSE Return(ExtractData(dataset, variable_name, w,
                                         box(bb.lon_min, bb.lat_min, bb.lon_max, bb.lat_max)))

extract_raster_for_geometry(dataset, variable_name, geometry, buffer_km) ==
    LET g == ResolveGeometry(geometry)
    IN  IF g.outcome = "raise" THEN g
        ELSE IF ~HasBounds(g.value) THEN Raise("AttributeError")
        ELSE LET geom == g.value
                 w == PixelWindow(BufferedBounds(Bounds(geom), buffer_km))
             IN  IF IsDegenerate(w) THEN Return(NullTriple)
                 ELSE Return(ExtractData(dataset, variable_name, w, geom))

\* city_gdf.geometry.iloc[0] raises IndexError when the frame has no rows
extract_raster_for_city(dataset, variable_name, city_gdf, buffer_km) ==
    IF Len(city_gdf.geometry.iloc) = 0 THEN Raise("IndexError")
    ELSE extract_raster_for_geometry(dataset, variable_name,
                                     city_gdf.geometry.iloc[1], buffer_km)

extract_raster_for_bounds(dataset, variable_name, lon_min, lon_max, lat_min, lat_max) ==
    extract_raster_for_geometry(dataset, variable_name,
                                box(lon_min, lat_min, lon_max, lat_max), 0)

---------------------------------------------------------------------------
(* The projector *)

\* evaluating geometry.coords on a shapely multi-part geometry raises
\* NotImplementedError; hasattr() swallows AttributeError only, so the
\* exception leaves hasattr(geometry, 'coords')
CoordsRaises(geometry) ==
    geometry.type \in {"MultiPolygon", "MultiLineString", "MultiPoint", "GeometryCollection"}

\* a slip that adds the window origin instead of subtracting it
PixelCoords_AddOffset(coords, x_offset, y_offset) ==
    [i \in 1..Len(coords) |->
        LET p == lonlat_to_pixel(coords[i][1], coords[i][2])
        IN  <<FAdd(p[1], FInt(x_offset)), FAdd(p[2], FInt(y_offset))>>]

\* a slip that leaves the points in Grid pixel space
PixelCoords_NoOffset(coords, x_offset, y_offset) ==
    [i \in 1..Len(coords) |->
        LET p == lonlat_to_pixel(coords[i][1], coords[i][2])
        IN  <<p[1], p[2]>>]

\* the loop over coords: each (lon, lat) to pixel space, less the offsets
PixelCoords(coords, x_offset, y_offset) ==
    [i \in 1..Len(coords) |->
        LET p == lonlat_to_pixel(coords[i][1], coords[i][2])
        IN  <<FSub(p[1], FInt(x_offset)), FSub(p[2], FInt(y_offset))>>]

geometry_to_pixel_coords(geometry, x_offset, y_offset) ==
    IF hasattr(geometry, "exterior")
    THEN Return(PixelCoords(geometry.exterior, x_offset, y_offset))
    ELSE IF CoordsRaises(geometry) THEN Raise("NotImplementedError")
    ELSE IF hasattr(geometry, "coords")
    THEN Return(PixelCoords(geometry.coords, x_offset, y_offset))
    ELSE Return(<<>>)

---------------------------------------------------------------------------
(* The inputs the calls are drawn from *)

\* t tenths of a degree
Deg10(t) == Rat(t, 10)

\* longitude intervals, in tenths of a degree: west of the Grid, across its
\* western edge, the whole extent, inside it (the Phoenix box of the Custom
\* Study Area page), of zero width, across the eastern edge, east of the Grid,
\* wider than the Grid, and touching the western edge from inside
LonIntervals ==
    {<<-1300, -1280>>, <<-1280, -1125>>, <<-1250, -660>>, <<-1125, -1115>>,
     <<-1125, -1125>>, <<-1115, -630>>, <<-630, -600>>, <<-1300, -600>>,
     <<-1250, -1125>>}

\* latitude intervals, in tenths of a degree: in the Southern Hemisphere, across
\* the southern edge, the whole extent, inside it, of zero height, across the
\* northern edge, north of the Grid, taller than the Grid, and touching the
\* northern edge from inside
LatIntervals ==
    {<<-300, -100>>, <<-100, 335>>, <<240, 500>>, <<335, 340>>,
     <<340, 340>>, <<340, 520>>, <<520, 550>>, <<-300, 550>>,
     <<335, 500>>}

\* axis-aligned boxes, as the Custom Study Area page builds them
Boxes ==
    {box(Deg10(x[1]), Deg10(y[1]), Deg10(x[2]), Deg10(y[2])) :
        <<x, y>> \in LonIntervals \X LatIntervals}

\* a drawn polygon that is not a box
Triangle ==
    Polygon(<< <<Deg10(-1125), Deg10(335)>>, <<Deg10(-1115), Deg10(335)>>,
               <<Deg10(-1120), Deg10(340)>>, <<Deg10(-1125), Deg10(335)>> >>)

\* Polygon(): no vertices, bounds undefined
EmptyPolygon == Polygon(<<>>)

\* areas smaller than a Grid cell, near Phoenix: a box 1/222 of a degree on
\* each side, inside column 1363 and row 1755, and a strip one degree wide
\* and 1/222 of a degree high, inside row 1755
TinyBoxes ==
    {box(Rat(-225, 2), Rat(67, 2), Rat(-12487, 111), Rat(3719, 111)),
     box(Deg10(-1125), Rat(67, 2), Deg10(-1115), Rat(3719, 111))}

\* city boundaries: one inside the Grid, one reaching past its western edge
CityGeoms ==
    {Triangle, box(Deg10(-1280), Deg10(240), Deg10(-1125), Deg10(335))}

\* GeoDataFrames of 0 .. MaxRows rows
GeoDataFrames ==
    {GeoDataFrame(rows) : rows \in UNION {[1..n -> CityGeoms] : n \in 0..MaxRows}}

\* the four numbers handed to extract_raster_for_bounds, in any order
BoundsArgs ==
    [type : {"bounds"},
     lon_min : {Deg10(t) : t \in {-1280, -1125, -1115}},
     lon_max : {Deg10(t) : t \in {-1125, -1115, -630}},
     lat_min : {Deg10(t) : t \in {-100, 335, 340}},
     lat_max : {Deg10(t) : t \in {-100, 340, 520}}]

Queries ==
    Boxes \cup TinyBoxes
          \cup {Triangle, EmptyPolygon, Point(<<Deg10(-1120), Deg10(337)>>)}
          \cup GeoDataFrames \cup BoundsArgs

Buffers == {5 * i : i \in 0..MaxBufferSteps}

VariableNames == {"LCZ_2020", "NDVI_mean_2015"}

Datasets == {Dataset({"LCZ_2020", "NDVI_mean_2015"}), Dataset({"LCZ_2020"})}

\* the lattice of points the transform is exercised on
LatticeLon(i) ==
    FAdd(FInt(CONUS_LON_MIN), Rat((CONUS_LON_MAX - CONUS_LON_MIN) * i, MaxGridSteps))

LatticeLat(j) ==
    FAdd(FInt(CONUS_LAT_MIN), Rat((CONUS_LAT_MAX - CONUS_LAT_MIN) * j, MaxGridSteps))

---------------------------------------------------------------------------
(* The dataset loader: src/utils/data_loader.py *)

\* the server processes that share the temporary directory
Procs == {"p1", "p2"}

\* the functions through which the dataset is obtained
Loaders == {"load_netcdf", "get_netcdf_dataset", "get_netcdf_variables"}

\* the cached file: whether it exists and how many chunks it holds
NoFile == [exists |-> FALSE, chunks |-> 0]

CompleteFile == [exists |-> TRUE, chunks |-> FileChunks]

\* a process that has not called the loader: nothing cached, no dataset object;
\* opens counts the dataset objects xr.open_dataset has made in the process,
\* downloads the times it began to write the file, and object is the number of
\* the dataset object its last call was handed (0 for none)
IdleProc ==
    [pc |-> "idle", fn |-> "", pos |-> 0, cached |-> FALSE,
     handle |-> "none", opened |-> "none", got |-> "none",
     opens |-> 0, downloads |-> 0, object |-> 0]

NoStore == [file |-> NoFile, proc |-> [p \in Procs |-> IdleProc]]

\* the end of a loader call whose dataset object is in the given state:
\* get_netcdf_variables lists the variables and closes the object it was
\* handed, the other two return it
LoaderReturn(pr, fn) ==
    [pr EXCEPT !.pc = "idle", !.fn = "", !.object = pr.opens,
               !.handle = IF fn = "get_netcdf_variables" THEN "closed" ELSE pr.handle,
               !.got = IF fn = "get_netcdf_variables" THEN "variables" ELSE "dataset"]

\* the end of a loader call by an exception: st.cache_resource stores nothing
LoaderRaise(pr) == [pr EXCEPT !.pc = "idle", !.fn = "", !.got = "error"]

---------------------------------------------------------------------------
(* Session threads: each runs its page's extraction calls *)

Threads == {"t1", "t2"}

\* the locals of a call before they are assigned
NoBox == [lon_min |-> NaN, lon_max |-> NaN, lat_min |-> NaN, lat_max |-> NaN]

IdleCall ==
    [pc |-> "idle", variable_name |-> "", geometry |-> None, buffer_km |-> 0,
     geom |-> None, box |-> NoBox, window |-> <<0, 0, 0, 0>>,
     outcome |-> "none", exc |-> "", value |-> None, overlapped |-> FALSE]

NoCalls == [t \in Threads |-> IdleCall]

\* a call is between its first statement and its return
InFlight(c) == c.pc \notin {"idle", "done"}

\* the call of a thread ends
Finish(c, out) ==
    [c EXCEPT !.pc = "done", !.outcome = out.outcome, !.exc = out.exc,
              !.value = out.value]

\* the arguments the threads call with
ThreadGeometries ==
    { box(Deg10(-1125), Deg10(335), Deg10(-1115), Deg10(340)),
      box(Deg10(-630), Deg10(520), Deg10(-600), Deg10(550)),
      box(FInt(CONUS_LON_MIN), FInt(CONUS_LAT_MIN), FInt(CONUS_LON_MAX), FInt(CONUS_LAT_MAX)),
      GeoDataFrame(<<Triangle>>),
      GeoDataFrame(<<>>) }

ThreadBuffers == {0, 5 * MaxBufferSteps}

---------------------------------------------------------------------------
(* Pages: the raster sections of src/pages *)

PageNames == {"City_Explorer", "Day_Night_Comparison", "Custom_Study_Area"}

\* the sections of a page that extract a raster, in the order they are rendered;
\* the LCZ row has one column per year
PageSections(name) ==
    IF name = "Day_Night_Comparison" THEN <<"LST_Day", "LST_Night">>
    ELSE <<"LCZ_2000", "LCZ_2005", "LCZ_2010", "LCZ_2015", "LCZ_2020",
           "SUHI_Day", "SUHI_Night">>

\* the variable a section asks for, with season 'summer' and year 2020 selected:
\* the seasonal LST variable, or the yearly mean when the dataset lacks it
SectionVariable(dataset, sec) ==
    IF sec \in {"SUHI_Day", "LST_Day"}
    THEN IF "LST_Day_summer_2020" \in dataset.data_vars
         THEN "LST_Day_summer_2020" ELSE "LST_Day_mean_2020"
    ELSE IF sec \in {"SUHI_Night", "LST_Night"}
    THEN IF "LST_Night_summer_2020" \in dataset.data_vars
         THEN "LST_Night_summer_2020" ELSE "LST_Night_mean_2020"
    ELSE sec

\* whether the section's "if data is not None" has an else branch
HasElse(name, sec) == name = "Day_Night_Comparison" \/ sec \notin {"SUHI_Day", "SUHI_Night"}

\* a page on which nothing has been rendered yet
NewPage(name) ==
    [name |-> name, pc |-> 1,
     rendered |-> [i \in 1..Len(PageSections(name)) |-> "pending"],
     result |-> [i \in 1..Len(PageSections(name)) |-> "none"]]

NoPage == [name |-> "none", pc |-> 1, rendered |-> <<>>, result |-> <<>>]

\* the datasets the pages are rendered on
PageDatasets ==
    { Dataset({"LCZ_2000", "LCZ_2010", "LCZ_2020",
               "LST_Day_summer_2020", "LST_Night_mean_2020"}),
      Dataset({"LCZ_2020", "LST_Day_mean_2020"}),
      Dataset({"LCZ_2015", "LST_Night_summer_2020"}) }

\* the city frames of the city pages: cities_gdf[cities_gdf['City'] == city]
CityFrames == {GeoDataFrame(<<g>>) : g \in CityGeoms} \cup {GeoDataFrame(<<>>)}

\* the extraction call of a section
SectionExtract(name, dataset, variable_name, area) ==
    IF name = "Custom_Study_Area"
    THEN extract_raster_for_geometry(dataset, variable_name, area, 5)
    ELSE extract_raster_for_city(dataset, variable_name, area, 20)

\* the section's test of the extracted array
HasData(name, data) ==
    IF name = "Custom_Study_Area"
    THEN data # None /\ data.shape[1] * data.shape[2] > 0
    ELSE data # None

\* create_custom_area_figure / create_raster_figure_with_boundary on the result
\* of an extraction call that returned an array: the outline is projected
\* against the window's origin, and an exception of the projector leaves the
\* figure function
FigureOutcome(name, area, out) ==
    IF out.outcome = "return" /\ out.value.pixel_bounds # None
    THEN LET geometry == IF name = "Custom_Study_Area" THEN area
                         ELSE area.geometry.iloc[1]
         IN  IF geometry_to_pixel_coords(geometry, out.value.pixel_bounds.items[1],
                                         out.value.pixel_bounds.items[3]).outcome = "raise"
             THEN "error" ELSE "figure"
    ELSE "none"

\* what a section shows and what its extraction call gave: out is how the
\* extraction call ends, fig how the figure function ends
SectionOutcome(name, dataset, sec, out, fig) ==
    IF SectionVariable(dataset, sec) \notin dataset.data_vars
    THEN [rendered |-> "placeholder", result |-> "none"]
    ELSE IF out.outcome = "raise"
    THEN [rendered |-> "error", result |-> "raise"]
    ELSE IF HasData(name, out.value.data)
    THEN [rendered |-> fig, result |-> "data"]
    ELSE IF HasElse(name, sec)
    THEN [rendered |-> "placeholder", result |-> "null"]
    ELSE [rendered |-> "nothing", result |-> "null"]

\* the page after its next section: an exception leaves the try block, the
\* except clause shows the error and the sections after it are not rendered
AfterSection(pg, o) ==
    [pg EXCEPT !.rendered[pg.pc] = o.rendered,
               !.result[pg.pc] = o.result,
               !.pc = IF o.rendered = "error"
                      THEN Len(PageSections(pg.name)) + 1 ELSE pg.pc + 1]

\* the next section of the page is rendered
RenderSection(pg, dataset, area) ==
    \E sec \in {PageSections(pg.name)[pg.pc]} :
    \E out \in {SectionExtract(pg.name, dataset, SectionVariable(dataset, sec), area)} :
    \E fig \in {FigureOutcome(pg.name, area, out)} :
    \E o \in {SectionOutcome(pg.name, dataset, sec, out, fig)} :
        page' = AfterSection(pg, o)

---------------------------------------------------------------------------
(* The analysis table and filter_data: src/utils/data_loader.py *)

\* Python values that share a slot with values of other types
PyNum(n) == [type |-> "int", n |-> n]

PyStr(s) == [type |-> "str", s |-> s]

PyList(items) == [type |-> "list", items |-> items]

\* bool(v), as 'if v:' and 'not v' take it
Truthy(v) ==
    CASE v.type = "NoneType" -> FALSE
      [] v.type = "int" -> v.n # 0
      [] v.type = "str" -> v.s # ""
      [] v.type = "list" -> Len(v.items) > 0
      [] v.type = "dict" -> v.keys # {}
      [] OTHER -> TRUE

\* a DataFrame: its rows in order, each with its index label and its cells
DataFrame(rows) == [type |-> "DataFrame", rows |-> rows]

\* the rows of the analysis table the model draws from
TableRows ==
    { [City |-> PyStr("Phoenix"), Region |-> PyStr("West"), Year |-> PyNum(2020),
       Season |-> PyStr("summer"), Time |-> PyStr("Day"), LCZ_Class |-> PyNum(3)],
      [City |-> PyStr("Phoenix"), Region |-> PyStr("West"), Year |-> PyNum(2015),
       Season |-> PyStr("summer"), Time |-> PyStr("Night"), LCZ_Class |-> PyNum(6)],
      [City |-> PyStr("Chicago"), Region |-> PyStr("Midwest"), Year |-> PyNum(2020),
       Season |-> PyStr("winter"), Time |-> PyStr("Day"), LCZ_Class |-> PyNum(3)] }

\* a row with its index label
Labelled(row, i) ==
    [index |-> i, City |-> row.City, Region |-> row.Region, Year |-> row.Year,
     Season |-> row.Season, Time |-> row.Time, LCZ_Class |-> row.LCZ_Class]

\* tables of 0 .. MaxTableRows rows, labelled 0, 1, ... as read_csv labels them
Tables ==
    {DataFrame([i \in 1..Len(rows) |-> Labelled(rows[i], i - 1)]) :
        rows \in UNION {[1..n -> TableRows] : n \in 0..MaxTableRows}}

\* the keyword arguments of filter_data and the column each is compared with
Keywords == <<"city", "region", "year", "season", "time", "lcz_class">>

ColumnOf(keyword) ==
    CASE keyword = "city" -> "City"
      [] keyword = "region" -> "Region"
      [] keyword = "year" -> "Year"
      [] keyword = "season" -> "Season"
      [] keyword = "time" -> "Time"
      [] keyword = "lcz_class" -> "LCZ_Class"

\* the criteria the pages and other callers pass: omitted (None), one value, a
\* list of values, or a value that is false in a test (0, "", [])
Criteria ==
    [city : {None, PyStr("Phoenix"), PyList(<<PyStr("Chicago"), PyStr("New York")>>), PyList(<<>>)},
     region : {None, PyStr("West"), PyList(<<PyStr("Midwest"), PyStr("West")>>)},
     year : {None, PyNum(2020), PyList(<<PyNum(2015), PyNum(2020)>>), PyNum(0)},
     season : {None, PyStr("summer"), PyList(<<PyStr("winter")>>)},
     time : {None, PyStr("Day"), PyStr("")},
     lcz_class : {None, PyNum(3), PyList(<<PyNum(6), PyNum(8)>>), PyNum(0)}]

\* no criteria at all
NoCriteria ==
    [city |-> None, region |-> None, year |-> None, season |-> None,
     time |-> None, lcz_class |-> None]

\* series.isin(values)
isin(cell, values) == \E k \in 1..Len(values) : values[k] = cell

\* a slip that tests 'is not None' where the code tests truth
FilterBy_IsNotNone(rows, column, criterion) ==
    IF criterion # None
    THEN IF criterion.type = "list"
         THEN SelectSeq(rows, LAMBDA r : isin(r[column], criterion.items))
         ELSE SelectSeq(rows, LAMBDA r : r[column] = criterion)
    ELSE rows

\* a slip that compares with a list as with a single value
FilterBy_ListAsValue(rows, column, criterion) ==
    IF Truthy(criterion)
    THEN SelectSeq(rows, LAMBDA r : r[column] = criterion)
    ELSE rows

\* one 'if criterion:' block: filtered[filtered[column].isin(criterion)] for a
\* list, filtered[filtered[column] == criterion] otherwise
FilterBy(rows, column, criterion) ==
    IF Truthy(criterion)
    THEN IF criterion.type = "list"
         THEN SelectSeq(rows, LAMBDA r : isin(r[column], criterion.items))
         ELSE SelectSeq(rows, LAMBDA r : r[column] = criterion)
    ELSE rows

\* the six blocks in the order of the code, from the k-th on
RECURSIVE FilterFrom(_, _, _)
FilterFrom(rows, criteria, k) ==
    IF k > Len(Keywords) THEN rows
    ELSE FilterFrom(FilterBy(rows, ColumnOf(Keywords[k]), criteria[Keywords[k]]),
                    criteria, k + 1)

\* filter_data works on df.copy() and returns the filtered frame; df is what
\* the caller's table holds after the call
filter_data(df, criteria) ==
    [value |-> DataFrame(FilterFrom(df.rows, criteria, 1)), df |-> df]

\* the keywords of a call that passes only those of the set S
Only(criteria, S) ==
    [k \in DOMAIN criteria |-> IF k \in S THEN criteria[k] ELSE None]

\* a filter_data call: the table and criteria handed in, the table afterwards,
\* the frame returned, and what later calls on that frame returned
FilterRecord(stage, df, criteria, out, again, chained) ==
    [stage |-> stage, df |-> df, criteria |-> criteria,
     df_after |-> out.df, result |-> out.value, again |-> again, chained |-> chained]

NoFilter(df) ==
    FilterRecord("none", df, NoCriteria, [value |-> DataFrame(<<>>), df |-> df],
                 DataFrame(<<>>), DataFrame(<<>>))

---------------------------------------------------------------------------
(* Drawings on the map and parse_drawn_geometry: src/utils/raster_utils.py *)

\* 'key in d' for a dict, which carries the set of its keys
has(d, key) == key \in d.keys

\* a GeoJSON geometry object: kind is the value under its 'type' key
GeoJSON(kind, coordinates) ==
    [type |-> "dict", keys |-> {"type", "coordinates"},
     kind |-> kind, coordinates |-> coordinates]

\* a GeoJSON feature as the Draw plugin reports it
Feature(geometry) ==
    [type |-> "dict", keys |-> {"type", "properties", "geometry"}, geometry |-> geometry]

\* a drawn triangle: one closed ring of (lon, lat) positions
DrawnTriangle ==
    Feature(GeoJSON("Polygon",
        << << <<Deg10(-1125), Deg10(335)>>, <<Deg10(-1115), Deg10(335)>>,
              <<Deg10(-1120), Deg10(340)>>, <<Deg10(-1125), Deg10(335)>> >> >>))

\* a rectangle with a hole, its positions carrying an altitude
DrawnRectangle ==
    Feature(GeoJSON("Polygon",
        << << <<Deg10(-900), Deg10(400), FInt(0)>>, <<Deg10(-880), Deg10(400), FInt(0)>>,
              <<Deg10(-880), Deg10(420), FInt(0)>>, <<Deg10(-900), Deg10(420), FInt(0)>>,
              <<Deg10(-900), Deg10(400), FInt(0)>> >>,
           << <<Deg10(-895), Deg10(405), FInt(0)>>, <<Deg10(-885), Deg10(405), FInt(0)>>,
              <<Deg10(-890), Deg10(415), FInt(0)>>, <<Deg10(-895), Deg10(405), FInt(0)>> >> >>))

\* a drawn line
DrawnLine ==
    Feature(GeoJSON("LineString",
        << <<Deg10(-1125), Deg10(335)>>, <<Deg10(-1115), Deg10(340)>> >>))

\* what a slot for a drawing may hold: a feature, a dict with no 'geometry'
\* key, or None
Drawings ==
    {DrawnTriangle, DrawnRectangle, DrawnLine,
     [type |-> "dict", keys |-> {"type", "properties"}, geometry |-> None], None}

\* the value st_folium returns: a dict with other keys (the zoom level, say)
\* and, when the keys are present, the last active drawing and all drawings
MapData(keys, last_active_drawing, all_drawings) ==
    [type |-> "dict", keys |-> keys,
     last_active_drawing |-> last_active_drawing, all_drawings |-> all_drawings]

\* None, the empty dict, and dicts with or without each of the two keys;
\* all_drawings is None or a list of 0 .. MaxDrawings drawings
MapDatas ==
    LET lists == {None} \cup {PyList(items) :
                     items \in UNION {[1..n -> Drawings] : n \in 0..MaxDrawings}}
    IN  {None, MapData({}, None, None), MapData({"zoom"}, None, None)}
        \cup {MapData({"zoom", "last_active_drawing"}, d, None) : d \in Drawings}
        \cup {MapData({"zoom", "all_drawings"}, None, a) : a \in lists}
        \cup {MapData({"zoom", "last_active_drawing", "all_drawings"}, d, a) :
                 d \in Drawings, a \in lists}

\* shapely's Polygon(shell): a ring that is not closed is closed with its
\* first point
PolygonFromShell(shell) ==
    Polygon(IF Len(shell) > 0 /\ shell[1] # shell[Len(shell)]
            THEN Append(shell, shell[1]) ELSE shell)

\* coords = geom_dict['coordinates'][0]; Polygon([(c[0], c[1]) for c in coords])
PolygonOfDrawing(drawing) ==
    LET coords == drawing.geometry.coordinates[1]
    IN  PolygonFromShell([i \in 1..Len(coords) |-> <<coords[i][1], coords[i][2]>>])

\* if drawing and 'geometry' in drawing: ... geom_dict['type'] == 'Polygon'
IsPolygonDrawing(drawing) ==
    /\ Truthy(drawing)
    /\ has(drawing, "geometry")
    /\ drawing.geometry.kind = "Polygon"

\* a slip that lets a later polygon of the list replace an earlier one
RECURSIVE FirstPolygon_KeepGoing(_, _)
FirstPolygon_KeepGoing(drawings, k) ==
    IF k > Len(drawings) THEN None
    ELSE LET later == FirstPolygon_KeepGoing(drawings, k + 1)
         IN  IF later # None THEN later
             ELSE IF IsPolygonDrawing(drawings[k]) THEN PolygonOfDrawing(drawings[k])
             ELSE None

\* the loop over all_drawings from the k-th on: the first polygon, or None
RECURSIVE FirstPolygon(_, _)
FirstPolygon(drawings, k) ==
    IF k > Len(drawings) THEN None
    ELSE IF IsPolygonDrawing(drawings[k]) THEN PolygonOfDrawing(drawings[k])
    ELSE FirstPolygon(drawings, k + 1)

parse_drawn_geometry(map_data) ==
    IF ~Truthy(map_data) THEN Return(None)
    ELSE IF /\ has(map_data, "last_active_drawing")
            /\ IsPolygonDrawing(map_data.last_active_drawing)
    THEN Return(PolygonOfDrawing(map_data.last_active_drawing))
    ELSE IF has(map_data, "all_drawings") /\ Truthy(map_data.all_drawings)
    THEN Return(FirstPolygon(map_data.all_drawings.items, 1))
    ELSE Return(None)

DrawnRecord(map_data, out) ==
    [fn |-> "parse_drawn_geometry", map_data |-> map_data,
     outcome |-> out.outcome, exc |-> out.exc, value |-> out.value]

NoDrawn ==
    [fn |-> "none", map_data |-> None, outcome |-> "none", exc |-> "", value |-> None]

---------------------------------------------------------------------------
(* State machine *)

CallRecord(fn, variable_name, geometry, buffer_km, out) ==
    [fn |-> fn, variable_name |-> variable_name, geometry |-> geometry,
     buffer_km |-> buffer_km, outcome |-> out.outcome, exc |-> out.exc,
     value |-> out.value]

NoCall == CallRecord("none", "", None, 0, [outcome |-> "none", exc |-> "", value |-> None])

NoProj == [fn |-> "none", geometry |-> None, x_offset |-> 0, y_offset |-> 0,
           outcome |-> "none", exc |-> "", points |-> <<>>]

NoTr == [stage |-> "none", lon |-> NaN, lat |-> NaN, px |-> NaN, py |-> NaN,
         lon2 |-> NaN, lat2 |-> NaN]

\* what prev keeps of the call that is being superseded
Remember(fn, variable_name) ==
    IF last.fn = fn /\ last.variable_name = variable_name THEN last ELSE NoCall

Init ==
    /\ ds \in Datasets
    /\ query \in Queries
    /\ last = NoCall
    /\ prev = NoCall
    /\ tr = NoTr
    /\ proj = NoProj
    /\ flt = NoFilter(DataFrame(<<>>))
    /\ drawn = NoDrawn
    /\ memo = NoCall
    /\ store = NoStore
    /\ calls = NoCalls
    /\ page = NoPage

\* a slip that keeps state between calls: the buffer never drops below the one
\* of the call before
CallExtractForGeometry_Sticky ==
    /\ query.type # "bounds"
    /\ \E v \in VariableNames, b \in Buffers :
          /\ last' = CallRecord("extract_raster_for_geometry", v, query, b,
                                extract_raster_for_geometry(ds, v, query,
                                    IF last.buffer_km > b THEN last.buffer_km ELSE b))
          /\ prev' = Remember("extract_raster_for_geometry", v)
    /\ UNCHANGED <<ds, query, tr, proj, memo, store, calls, page, flt, drawn>>

\* a page calls extract_raster_for_geometry on the study area
CallExtractForGeometry ==
    /\ query.type # "bounds"
    /\ \E v \in VariableNames, b \in Buffers :
          /\ last' = CallRecord("extract_raster_for_geometry", v, query, b,
                                extract_raster_for_geometry(ds, v, query, b))
          /\ prev' = Remember("extract_raster_for_geometry", v)
    /\ UNCHANGED <<ds, query, tr, proj, memo, store, calls, page, flt, drawn>>

\* a page calls extract_raster_for_city on a city's GeoDataFrame
CallExtractForCity ==
    /\ query.type = "GeoDataFrame"
    /\ \E v \in VariableNames, b \in Buffers :
          /\ last' = CallRecord("extract_raster_for_city", v, query, b,
                                extract_raster_for_city(ds, v, query, b))
          /\ prev' = Remember("extract_raster_for_city", v)
    /\ UNCHANGED <<ds, query, tr, proj, memo, store, calls, page, flt, drawn>>

\* extract_raster_for_bounds builds the box and extracts with no buffer
CallExtractForBounds ==
    /\ query.type = "bounds"
    /\ \E v \in VariableNames :
          /\ last' = CallRecord("extract_raster_for_bounds", v,
                                box(query.lon_min, query.lat_min, query.lon_max, query.lat_max),
                                0,
                                extract_raster_for_bounds(ds, v, query.lon_min, query.lon_max,
                                                          query.lat_min, query.lat_max))
          /\ prev' = Remember("extract_raster_for_bounds", v)
    /\ UNCHANGED <<ds, query, tr, proj, memo, store, calls, page, flt, drawn>>

Next == CallExtractForGeometry \/ CallExtractForCity \/ CallExtractForBounds

Spec == Init /\ [][Next]_vars

\* the transform on its own: nothing is extracted
TransformInit ==
    /\ ds = Dataset(VariableNames)
    /\ query = None
    /\ last = NoCall
    /\ prev = NoCall
    /\ tr = NoTr
    /\ proj = NoProj
    /\ flt = NoFilter(DataFrame(<<>>))
    /\ drawn = NoDrawn
    /\ memo = NoCall
    /\ store = NoStore
    /\ calls = NoCalls
    /\ page = NoPage

\* lonlat_to_pixel on a point of the lattice
ToPixel ==
    /\ \E i \in 0..MaxGridSteps, j \in 0..MaxGridSteps :
          LET lon == LatticeLon(i)
              lat == LatticeLat(j)
              p == lonlat_to_pixel(lon, lat)
          IN  tr' = [stage |-> "pixel", lon |-> lon, lat |-> lat,
                     px |-> p[1], py |-> p[2], lon2 |-> NaN, lat2 |-> NaN]
    /\ UNCHANGED <<ds, query, last, prev, proj, memo, store, calls, page, flt, drawn>>

\* pixel_to_lonlat on the pixel coordinates just computed
ToLonLat ==
    /\ tr.stage = "pixel"
    /\ LET q == pixel_to_lonlat(tr.px, tr.py)
       IN  tr' = [tr EXCEPT !.stage = "lonlat", !.lon2 = q[1], !.lat2 = q[2]]
    /\ UNCHANGED <<ds, query, last, prev, proj, memo, store, calls, page, flt, drawn>>

TransformNext == ToPixel \/ ToLonLat

SpecTransform == TransformInit /\ [][TransformNext]_vars

---------------------------------------------------------------------------
(* A page that extracts for a study area and draws its outline *)

ProjRecord(geometry, x_offset, y_offset, out) ==
    [fn |-> "geometry_to_pixel_coords", geometry |-> geometry,
     x_offset |-> x_offset, y_offset |-> y_offset,
     outcome |-> out.outcome, exc |-> out.exc,
     points |-> IF out.outcome = "return" THEN out.value ELSE <<>>]

\* two uploaded features that do not touch: their unary_union is a MultiPolygon
UnionOfFeatures ==
    MultiPolygon(<< box(Deg10(-1125), Deg10(335), Deg10(-1120), Deg10(340)),
                    box(Deg10(-1118), Deg10(335), Deg10(-1115), Deg10(340)) >>)

\* the study areas of the page
StudyAreas ==
    { box(Deg10(-1125), Deg10(335), Deg10(-1115), Deg10(340)),
      box(Deg10(-1250), Deg10(240), Deg10(-660), Deg10(500)),
      box(Deg10(-630), Deg10(520), Deg10(-600), Deg10(550)),
      Triangle, EmptyPolygon, UnionOfFeatures, None,
      Point(<<Deg10(-1120), Deg10(337)>>),
      LineString(<< <<Deg10(-1125), Deg10(335)>>, <<Deg10(-1120), Deg10(340)>>,
                    <<Deg10(-1115), Deg10(335)>> >>) }

\* the offsets the projector is called with: the origin (x_min, y_min) of the
\* window just extracted, as the figure functions do, or the Grid's own origin
Offsets ==
    {<<0, 0>>} \cup
    (IF last.outcome = "return" /\ last.value.pixel_bounds # None
     THEN {<<last.value.pixel_bounds.items[1], last.value.pixel_bounds.items[3]>>}
     ELSE {})

ProjectInit ==
    /\ ds \in Datasets
    /\ query \in StudyAreas
    /\ last = NoCall
    /\ prev = NoCall
    /\ tr = NoTr
    /\ proj = NoProj
    /\ flt = NoFilter(DataFrame(<<>>))
    /\ drawn = NoDrawn
    /\ memo = NoCall
    /\ store = NoStore
    /\ calls = NoCalls
    /\ page = NoPage

\* geometry_to_pixel_coords on the study area
CallProject ==
    /\ \E off \in Offsets :
          proj' = ProjRecord(query, off[1], off[2],
                             geometry_to_pixel_coords(query, off[1], off[2]))
    /\ UNCHANGED <<ds, query, last, prev, tr, memo, store, calls, page, flt, drawn>>

ProjectNext == CallExtractForGeometry \/ CallProject

SpecProject == ProjectInit /\ [][ProjectNext]_vars

\* the caller keeps the result of the call just made, to compare a later one with
KeepResult ==
    /\ last.fn # "none"
    /\ memo' = last
    /\ UNCHANGED <<ds, query, last, prev, tr, proj, store, calls, page, flt, drawn>>

RepeatNext == CallExtractForGeometry \/ CallProject \/ KeepResult

\* the page's calls, with results kept across later calls
SpecRepeat == ProjectInit /\ [][RepeatNext]_vars

---------------------------------------------------------------------------
(* The loader's steps *)

LoaderInit ==
    /\ ds = Dataset(VariableNames)
    /\ query = None
    /\ last = NoCall
    /\ prev = NoCall
    /\ tr = NoTr
    /\ proj = NoProj
    /\ flt = NoFilter(DataFrame(<<>>))
    /\ drawn = NoDrawn
    /\ memo = NoCall
    /\ store \in {[NoStore EXCEPT !.file = f] : f \in {NoFile, CompleteFile}}
    /\ calls = NoCalls
    /\ page = NoPage

\* a slip that runs load_netcdf on every call, as if it were not decorated
CallLoader_NoCache(p) ==
    /\ store.proc[p].pc = "idle"
    /\ \E fn \in Loaders :
          store' = [store EXCEPT !.proc[p] = [@ EXCEPT !.pc = "check", !.fn = fn]]
    /\ UNCHANGED <<ds, query, last, prev, tr, proj, memo, calls, page, flt, drawn>>

\* a page of process p calls one of the loader functions; st.cache_resource
\* returns the object it holds, or runs load_netcdf
CallLoader(p) ==
    /\ store.proc[p].pc = "idle"
    /\ \E fn \in Loaders :
          store' = [store EXCEPT !.proc[p] =
                       IF @.cached THEN LoaderReturn(@, fn)
                       ELSE [@ EXCEPT !.pc = "check", !.fn = fn]]
    /\ UNCHANGED <<ds, query, last, prev, tr, proj, memo, calls, page, flt, drawn>>

\* if not os.path.exists(cached_path)
CheckCachedFile(p) ==
    /\ store.proc[p].pc = "check"
    /\ store' = [store EXCEPT !.proc[p].pc =
                    IF store.file.exists THEN "open" ELSE "request"]
    /\ UNCHANGED <<ds, query, last, prev, tr, proj, memo, calls, page, flt, drawn>>

\* requests.get(...) and raise_for_status(): an exception ends the call; else
\* open(cached_path, 'wb') creates the file, or empties the one that is there
RequestFile(p) ==
    /\ store.proc[p].pc = "request"
    /\ \/ store' = [store EXCEPT !.proc[p] = LoaderRaise(@)]
       \/ store' = [store EXCEPT !.proc[p].pc = "write", !.proc[p].pos = 0,
                                 !.proc[p].downloads = @ + 1,
                                 !.file = [exists |-> TRUE, chunks |-> 0]]
    /\ UNCHANGED <<ds, query, last, prev, tr, proj, memo, calls, page, flt, drawn>>

\* f.write(chunk) for the next chunk of the response
WriteChunk(p) ==
    /\ store.proc[p].pc = "write"
    /\ store.proc[p].pos < FileChunks
    /\ store' = [store EXCEPT !.proc[p].pos = @ + 1,
                              !.file.chunks = Max2(@, store.proc[p].pos + 1)]
    /\ UNCHANGED <<ds, query, last, prev, tr, proj, memo, calls, page, flt, drawn>>

\* the response breaks off before its last chunk: the exception ends the call
\* and the file stays as far as it was written
BreakOff(p) ==
    /\ store.proc[p].pc = "write"
    /\ store.proc[p].pos < FileChunks
    /\ store' = [store EXCEPT !.proc[p] = LoaderRaise(@)]
    /\ UNCHANGED <<ds, query, last, prev, tr, proj, memo, calls, page, flt, drawn>>

\* the response is exhausted and the file is closed
EndOfResponse(p) ==
    /\ store.proc[p].pc = "write"
    /\ store.proc[p].pos = FileChunks
    /\ store' = [store EXCEPT !.proc[p].pc = "open"]
    /\ UNCHANGED <<ds, query, last, prev, tr, proj, memo, calls, page, flt, drawn>>

\* ds = xr.open_dataset(cached_path, chunks='auto') and the return, which
\* st.cache_resource stores; on a file that is not complete the library either
\* raises or opens what is there
OpenDataset(p) ==
    /\ store.proc[p].pc = "open"
    /\ \/ store' = [store EXCEPT !.proc[p] =
                       LoaderReturn([@ EXCEPT !.cached = TRUE, !.handle = "open",
                                              !.opens = @ + 1,
                                              !.opened = IF store.file.chunks = FileChunks
                                                         THEN "complete" ELSE "partial"],
                                    @.fn)]
       \/ /\ store.file.chunks < FileChunks
          /\ store' = [store EXCEPT !.proc[p] = LoaderRaise(@)]
    /\ UNCHANGED <<ds, query, last, prev, tr, proj, memo, calls, page, flt, drawn>>

LoaderNext ==
    \E p \in Procs :
        \/ CallLoader(p)
        \/ CheckCachedFile(p)
        \/ RequestFile(p)
        \/ WriteChunk(p)
        \/ BreakOff(p)
        \/ EndOfResponse(p)
        \/ OpenDataset(p)

SpecLoader == LoaderInit /\ [][LoaderNext]_vars

---------------------------------------------------------------------------
(* Interleaved extraction calls *)

ThreadInit ==
    /\ ds \in Datasets
    /\ query = None
    /\ last = NoCall
    /\ prev = NoCall
    /\ tr = NoTr
    /\ proj = NoProj
    /\ flt = NoFilter(DataFrame(<<>>))
    /\ drawn = NoDrawn
    /\ memo = NoCall
    /\ store = NoStore
    /\ calls = NoCalls
    /\ page = NoPage

\* thread t enters extract_raster_for_geometry; every call in flight at that
\* moment, and the new one if there is any, is marked as overlapped
Begin(t) ==
    /\ ~InFlight(calls[t])
    /\ \E v \in VariableNames, g \in ThreadGeometries, b \in ThreadBuffers :
          calls' = [u \in Threads |->
                      IF u = t
                      THEN [IdleCall EXCEPT !.pc = "resolve", !.variable_name = v,
                                            !.geometry = g, !.buffer_km = b,
                                            !.overlapped =
                                                \E o \in Threads \ {t} : InFlight(calls[o])]
                      ELSE IF InFlight(calls[u])
                      THEN [calls[u] EXCEPT !.overlapped = TRUE]
                      ELSE calls[u]]
    /\ UNCHANGED <<ds, query, last, prev, tr, proj, memo, store, page, flt, drawn>>

\* "Get geometry in WGS84"
StepResolve(t) ==
    /\ calls[t].pc = "resolve"
    /\ LET g == ResolveGeometry(calls[t].geometry)
       IN  calls' = [calls EXCEPT ![t] =
                        IF g.outcome = "raise" THEN Finish(@, g)
                        ELSE [@ EXCEPT !.pc = "bounds", !.geom = g.value]]
    /\ UNCHANGED <<ds, query, last, prev, tr, proj, memo, store, page, flt, drawn>>

\* "Get bounds" and "Add buffer in degrees"
StepBounds(t) ==
    /\ calls[t].pc = "bounds"
    /\ calls' = [calls EXCEPT ![t] =
                    IF ~HasBounds(@.geom) THEN Finish(@, Raise("AttributeError"))
                    ELSE [@ EXCEPT !.pc = "window",
                                   !.box = BufferedBounds(Bounds(calls[t].geom),
                                                          calls[t].buffer_km)]]
    /\ UNCHANGED <<ds, query, last, prev, tr, proj, memo, store, page, flt, drawn>>

\* a slip that keeps the buffered box in one place shared by all calls: the
\* window is computed from the box of whichever call wrote it
StepWindow_Shared(t) ==
    /\ calls[t].pc = "window"
    /\ \E u \in Threads :
          /\ calls[u].pc \in {"window", "check", "slice"}
          /\ calls' = [calls EXCEPT ![t] =
                          [@ EXCEPT !.pc = "check", !.window = PixelWindow(calls[u].box)]]
    /\ UNCHANGED <<ds, query, last, prev, tr, proj, memo, store, page, flt, drawn>>

\* "Convert to pixels" and "Clamp to grid"
StepWindow(t) ==
    /\ calls[t].pc = "window"
    /\ calls' = [calls EXCEPT ![t] =
                    [@ EXCEPT !.pc = "check", !.window = PixelWindow(calls[t].box)]]
    /\ UNCHANGED <<ds, query, last, prev, tr, proj, memo, store, page, flt, drawn>>

\* if x_max <= x_min or y_max <= y_min: return None, None, None
StepCheck(t) ==
    /\ calls[t].pc = "check"
    /\ calls' = [calls EXCEPT ![t] =
                    IF IsDegenerate(@.window) THEN Finish(@, Return(NullTriple))
                    ELSE [@ EXCEPT !.pc = "slice"]]
    /\ UNCHANGED <<ds, query, last, prev, tr, proj, memo, store, page, flt, drawn>>

\* "Extract data" and the return
StepSlice(t) ==
    /\ calls[t].pc = "slice"
    /\ calls' = [calls EXCEPT ![t] =
                    Finish(@, Return(ExtractData(ds, @.variable_name, @.window, @.geom)))]
    /\ UNCHANGED <<ds, query, last, prev, tr, proj, memo, store, page, flt, drawn>>

ThreadNext ==
    \E t \in Threads :
        \/ Begin(t)
        \/ StepResolve(t)
        \/ StepBounds(t)
        \/ StepWindow(t)
        \/ StepCheck(t)
        \/ StepSlice(t)

SpecThreads == ThreadInit /\ [][ThreadNext]_vars

---------------------------------------------------------------------------
(* Rendering a page *)

PageInit ==
    /\ ds \in PageDatasets
    /\ page \in {NewPage(n) : n \in PageNames}
    /\ query \in IF page.name = "Custom_Study_Area" THEN StudyAreas \ {None}
                 ELSE CityFrames
    /\ last = NoCall
    /\ prev = NoCall
    /\ tr = NoTr
    /\ proj = NoProj
    /\ flt = NoFilter(DataFrame(<<>>))
    /\ drawn = NoDrawn
    /\ memo = NoCall
    /\ store = NoStore
    /\ calls = NoCalls

\* the next raster section of the City Explorer page
RenderCityExplorer ==
    /\ page.name = "City_Explorer"
    /\ page.pc <= Len(PageSections(page.name))
    /\ RenderSection(page, ds, query)
    /\ UNCHANGED <<ds, query, last, prev, tr, proj, memo, store, calls, flt, drawn>>

\* the next LST anomaly map of the Day-Night Comparison page
RenderDayNight ==
    /\ page.name = "Day_Night_Comparison"
    /\ page.pc <= Len(PageSections(page.name))
    /\ RenderSection(page, ds, query)
    /\ UNCHANGED <<ds, query, last, prev, tr, proj, memo, store, calls, flt, drawn>>

\* the next section of the Custom Study Area page's analysis
RenderCustomStudyArea ==
    /\ page.name = "Custom_Study_Area"
    /\ page.pc <= Len(PageSections(page.name))
    /\ RenderSection(page, ds, query)
    /\ UNCHANGED <<ds, query, last, prev, tr, proj, memo, store, calls, flt, drawn>>

PageNext == RenderCityExplorer \/ RenderDayNight \/ RenderCustomStudyArea

SpecPages == PageInit /\ [][PageNext]_vars

---------------------------------------------------------------------------
(* Filtering the analysis table *)

FilterInit ==
    /\ ds = Dataset(VariableNames)
    /\ query = None
    /\ last = NoCall
    /\ prev = NoCall
    /\ tr = NoTr
    /\ proj = NoProj
    /\ memo = NoCall
    /\ store = NoStore
    /\ calls = NoCalls
    /\ page = NoPage
    /\ flt \in {NoFilter(df) : df \in Tables}
    /\ drawn = NoDrawn

\* a page filters the table it loaded
CallFilter ==
    /\ flt.stage = "none"
    /\ \E criteria \in Criteria :
          flt' = FilterRecord("called", flt.df, criteria, filter_data(flt.df, criteria),
                              DataFrame(<<>>), DataFrame(<<>>))
    /\ UNCHANGED <<ds, query, last, prev, tr, proj, memo, store, calls, page, drawn>>

\* the same criteria applied to the frame just returned
FilterAgain ==
    /\ flt.stage = "called"
    /\ flt' = [flt EXCEPT !.stage = "again",
                          !.again = filter_data(flt.result, flt.criteria).value]
    /\ UNCHANGED <<ds, query, last, prev, tr, proj, memo, store, calls, page, drawn>>

\* the criteria applied in two calls, one of them in a call of its own before
\* or after the call with the rest, the second call on the frame the first
\* returned, as the City Explorer page narrows city_data
FilterChained ==
    /\ flt.stage = "called"
    /\ \E keyword \in DOMAIN flt.criteria :
       \E S \in {{keyword}, DOMAIN flt.criteria \ {keyword}} :
          \E first \in {filter_data(flt.df, Only(flt.criteria, S)).value} :
             flt' = [flt EXCEPT !.stage = "chained",
                        !.chained = filter_data(first,
                                        Only(flt.criteria, DOMAIN flt.criteria \ S)).value]
    /\ UNCHANGED <<ds, query, last, prev, tr, proj, memo, store, calls, page, drawn>>

FilterNext == CallFilter \/ FilterAgain \/ FilterChained

SpecFilter == FilterInit /\ [][FilterNext]_vars

---------------------------------------------------------------------------
(* Drawing a study area on the map *)

DrawnInit ==
    /\ ds = Dataset(VariableNames)
    /\ query = None
    /\ last = NoCall
    /\ prev = NoCall
    /\ tr = NoTr
    /\ proj = NoProj
    /\ memo = NoCall
    /\ store = NoStore
    /\ calls = NoCalls
    /\ page = NoPage
    /\ flt = NoFilter(DataFrame(<<>>))
    /\ drawn = NoDrawn

\* the Custom Study Area page reruns with what the map component returned
CallParseDrawn ==
    /\ \E map_data \in MapDatas :
          drawn' = DrawnRecord(map_data, parse_drawn_geometry(map_data))
    /\ UNCHANGED <<ds, query, last, prev, tr, proj, memo, store, calls, page, flt>>

DrawnNext == CallParseDrawn

SpecDrawn == DrawnInit /\ [][DrawnNext]_vars

---------------------------------------------------------------------------
(* What the properties speak of *)

\* the last call returned (it did not raise)
Returned == last.outcome = "return"

\* the last call returned an array
Succeeded == Returned /\ last.value.data # None

\* the geometry a call works on: the first row of a container, else the argument
GeomOf(call) ==
    IF hasattr(call.geometry, "geometry")
    THEN IF Len(call.geometry.geometry.iloc) = 0 THEN None
         ELSE call.geometry.geometry.iloc[1]
    ELSE call.geometry

\* the geometry of a call has a bounding box of four finite numbers
HasBox(call) ==
    /\ call.fn # "none"
    /\ GeomOf(call) # None
    /\ CoordsOf(GeomOf(call)) # <<>>

\* the bounding box of a call's geometry pushed out by buffer_km / 111 degrees
BufferedBox(call) ==
    LET b == Bounds(GeomOf(call))
        d == Rat(call.buffer_km, 111)
    IN  [west |-> FSub(b[1], d), south |-> FSub(b[2], d),
         east |-> FAdd(b[3], d), north |-> FAdd(b[4], d)]

\* the largest integer <= a
Floor(a) == a[1] \div a[2]

\* a pixel coordinate clamped into 0 .. size - 1 and cut to an integer; Python's
\* max(0, min(NaN, size - 1)) is 0
IndexOf(v, size) == IF IsNaN(v) THEN 0 ELSE Max2(0, Min2(Floor(v), size - 1))

\* the four indices of a call after clamping and integer truncation
IndicesOf(call) ==
    LET bb == BufferedBox(call)
        nw == lonlat_to_pixel(bb.west, bb.north)
        se == lonlat_to_pixel(bb.east, bb.south)
    IN  [x_min |-> IndexOf(nw[1], GRID_WIDTH), x_max |-> IndexOf(se[1], GRID_WIDTH),
         y_min |-> IndexOf(nw[2], GRID_HEIGHT), y_max |-> IndexOf(se[2], GRID_HEIGHT)]

\* a box meets the Grid extent
MeetsGrid(bb) ==
    /\ FLeq(bb.west, FInt(CONUS_LON_MAX)) /\ FLeq(FInt(CONUS_LON_MIN), bb.east)
    /\ FLeq(bb.south, FInt(CONUS_LAT_MAX)) /\ FLeq(FInt(CONUS_LAT_MIN), bb.north)

\* a box lies inside the Grid extent
InsideGrid(bb) ==
    /\ FLeq(FInt(CONUS_LON_MIN), bb.west) /\ FLeq(bb.east, FInt(CONUS_LON_MAX))
    /\ FLeq(FInt(CONUS_LAT_MIN), bb.south) /\ FLeq(bb.north, FInt(CONUS_LAT_MAX))

\* the window a call returned, as <<x_min, x_max, y_min, y_max>>
WindowOf(call) == call.value.pixel_bounds.items

---------------------------------------------------------------------------
(* C1 *)

\* C1 (window validity): whenever an extraction returns a pixel window
\* (x_min, x_max, y_min, y_max), 0 <= x_min < x_max <= GRID_WIDTH and
\* 0 <= y_min < y_max <= GRID_HEIGHT.  Every buffer_km of the model is >= 0.
C1_WindowValidity ==
    (Returned /\ last.value.pixel_bounds # None) =>
        LET w == WindowOf(last)
        IN  /\ 0 <= w[1] /\ w[1] < w[2] /\ w[2] <= GRID_WIDTH
            /\ 0 <= w[3] /\ w[3] < w[4] /\ w[4] <= GRID_HEIGHT

\* a geometry reaching past the Grid's north-west corner, buffered by 20 km, got
\* a window that starts at column 0 and row 0
C1_Witness ==
    /\ Returned /\ last.value.pixel_bounds # None
    /\ last.buffer_km = 20
    /\ MeetsGrid(BufferedBox(last))
    /\ ~InsideGrid(BufferedBox(last))
    /\ WindowOf(last)[1] = 0 /\ WindowOf(last)[3] = 0

---------------------------------------------------------------------------
(* C2 *)

\* C2 (shape consistency): a returned array has y_max - y_min rows and
\* x_max - x_min columns, and its element (r, c) is the source array's element
\* (y_min + r, x_min + c).  The array is an affine view of the source, so the
\* four corner elements decide every element.
C2_ShapeConsistency ==
    Succeeded =>
        LET w == WindowOf(last)
            data == last.value.data
        IN  /\ data.shape = <<w[4] - w[3], w[2] - w[1]>>
            /\ \A r \in {0, w[4] - w[3] - 1} : \A c \in {0, w[2] - w[1] - 1} :
                  Element(data, r, c) =
                      SourceElement(last.variable_name, w[3] + r, w[1] + c)

\* an array of several rows and columns cut from the inside of the Grid
C2_Witness ==
    /\ Succeeded
    /\ WindowOf(last)[1] > 0 /\ WindowOf(last)[3] > 0
    /\ last.value.data.shape[1] > 1 /\ last.value.data.shape[2] > 1
    /\ last.value.data.shape[1] # last.value.data.shape[2]

---------------------------------------------------------------------------
(* C3 *)

\* C3 (all or nothing): every return is either (None, None, None) or a triple
\* with an array, a window and a geometry; never an array without a window or a
\* window without an array.
C3_AllOrNothing ==
    Returned =>
        \/ last.value = NullTriple
        \/ /\ last.value.data # None
           /\ last.value.pixel_bounds # None
           /\ last.value.geom # None

\* the variable is missing although the window is a proper one: the call
\* returned the same three None a degenerate window gives
C3_Witness ==
    /\ Returned /\ last.value = NullTriple
    /\ last.variable_name \notin ds.data_vars
    /\ HasBox(last)
    /\ IndicesOf(last).x_min < IndicesOf(last).x_max
    /\ IndicesOf(last).y_min < IndicesOf(last).y_max

---------------------------------------------------------------------------
(* C4 *)

\* C4 (exact failure condition): a call that returns gives (None, None, None)
\* exactly when, after clamping and truncation, x_max <= x_min or
\* y_max <= y_min, or the variable is not in the dataset; otherwise it gives
\* the array with the window of those four indices and the geometry.
C4_ExactFailure ==
    Returned =>
        LET i == IndicesOf(last)
            fails == \/ i.x_max <= i.x_min
                     \/ i.y_max <= i.y_min
                     \/ last.variable_name \notin ds.data_vars
        IN  /\ (last.value = NullTriple) <=> fails
            /\ ~fails =>
                  /\ last.value.data # None
                  /\ last.value.pixel_bounds = Tuple4(i.x_min, i.x_max, i.y_min, i.y_max)
                  /\ last.value.geom = GeomOf(last)

\* a box of zero width inside the Grid: x_max = x_min, variable present, no result
C4_Witness ==
    /\ Returned /\ last.value = NullTriple
    /\ last.variable_name \in ds.data_vars
    /\ HasBox(last) /\ InsideGrid(BufferedBox(last))
    /\ IndicesOf(last).x_max = IndicesOf(last).x_min
    /\ IndicesOf(last).y_max > IndicesOf(last).y_min

---------------------------------------------------------------------------
(* C5 *)

\* a box lies entirely west, east, south or north of the Grid extent
OutsideGrid(bb) ==
    \/ FLess(bb.east, FInt(CONUS_LON_MIN)) \/ FLess(FInt(CONUS_LON_MAX), bb.west)
    \/ FLess(bb.north, FInt(CONUS_LAT_MIN)) \/ FLess(FInt(CONUS_LAT_MAX), bb.south)

\* C5 (degenerate rejection): a geometry whose bounding box lies entirely
\* outside the Grid extent, extracted with buffer_km = 0, gives
\* (None, None, None), whatever the variable name.
C5_DegenerateRejection ==
    (HasBox(last) /\ last.buffer_km = 0 /\ OutsideGrid(BufferedBox(last))) =>
        (Returned /\ last.value = NullTriple)

\* a box in the Southern Hemisphere, under the Grid's longitudes, asked for a
\* variable the dataset has
C5_Witness ==
    /\ HasBox(last) /\ last.buffer_km = 0
    /\ FLess(BufferedBox(last).north, FInt(0))
    /\ FLess(BufferedBox(last).south, BufferedBox(last).north)
    /\ FLeq(FInt(CONUS_LON_MIN), BufferedBox(last).west)
    /\ FLess(BufferedBox(last).west, BufferedBox(last).east)
    /\ FLeq(BufferedBox(last).east, FInt(CONUS_LON_MAX))
    /\ last.variable_name \in ds.data_vars
    /\ Returned /\ last.value = NullTriple

---------------------------------------------------------------------------
(* C6 *)

\* C6 (missing variable): a call that names a variable the dataset does not
\* have, on any geometry that has bounds (proper window or not) and with any
\* buffer, returns (None, None, None).
C6_MissingVariable ==
    (last.fn # "none" /\ GeomOf(last) # None
        /\ last.variable_name \notin ds.data_vars) =>
        (Returned /\ last.value = NullTriple)

\* the call would have succeeded had the variable been there: the geometry
\* lies inside the Grid and its window is a proper one
C6_Witness ==
    /\ Returned /\ last.value = NullTriple
    /\ last.variable_name \notin ds.data_vars
    /\ last.buffer_km = 5
    /\ HasBox(last) /\ InsideGrid(BufferedBox(last))
    /\ IndicesOf(last).x_min < IndicesOf(last).x_max
    /\ IndicesOf(last).y_min < IndicesOf(last).y_max

---------------------------------------------------------------------------
(* C7 *)

\* C7 (monotonic buffer): for one geometry and one variable, if the call with
\* buffer b1 returned a window then the call with any buffer b2 >= b1 returns a
\* window too, and it contains the first: x_min2 <= x_min1, x_max2 >= x_max1,
\* y_min2 <= y_min1, y_max2 >= y_max1.  (prev and last are two calls of the
\* same function on the same geometry and variable.)
C7_MonotonicBuffer ==
    (/\ prev.fn # "none"
     /\ prev.outcome = "return"
     /\ prev.value.pixel_bounds # None
     /\ prev.buffer_km <= last.buffer_km) =>
        /\ Returned
        /\ last.value.pixel_bounds # None
        /\ WindowOf(last)[1] <= WindowOf(prev)[1]
        /\ WindowOf(last)[2] >= WindowOf(prev)[2]
        /\ WindowOf(last)[3] <= WindowOf(prev)[3]
        /\ WindowOf(last)[4] >= WindowOf(prev)[4]

\* the buffer grew from 0 to 20 km and the window grew on all four sides
C7_Witness ==
    /\ prev.fn # "none" /\ prev.outcome = "return"
    /\ prev.value.pixel_bounds # None
    /\ prev.buffer_km = 0 /\ last.buffer_km = 20
    /\ Returned /\ last.value.pixel_bounds # None
    /\ WindowOf(last)[1] < WindowOf(prev)[1]
    /\ WindowOf(last)[2] > WindowOf(prev)[2]
    /\ WindowOf(last)[3] < WindowOf(prev)[3]
    /\ WindowOf(last)[4] > WindowOf(prev)[4]

---------------------------------------------------------------------------
(* C8 *)

\* C8 (round trip): for every (lon, lat) within the Grid extent,
\* pixel_to_lonlat(lonlat_to_pixel(lon, lat)) = (lon, lat), exactly, in exact
\* arithmetic.
C8_RoundTrip ==
    (tr.stage = "lonlat") => (tr.lon2 = tr.lon /\ tr.lat2 = tr.lat)

\* a point strictly inside the Grid whose pixel coordinates are not whole
\* numbers went to pixel space and came back
C8_Witness ==
    /\ tr.stage = "lonlat"
    /\ FLess(FInt(CONUS_LON_MIN), tr.lon) /\ FLess(tr.lon, FInt(CONUS_LON_MAX))
    /\ FLess(FInt(CONUS_LAT_MIN), tr.lat) /\ FLess(tr.lat, FInt(CONUS_LAT_MAX))
    /\ tr.px[2] # 1 /\ tr.py[2] # 1
    /\ tr.lon2 = tr.lon /\ tr.lat2 = tr.lat

---------------------------------------------------------------------------
(* C9 *)

\* C9 (errors are never thrown): every extraction call, whatever its dataset,
\* variable name, buffer and geometry argument (an empty geometry and a
\* GeoDataFrame of zero rows included), ends by returning (None, None, None) or
\* a full triple; none ends with a raised exception.
C9_NeverRaises ==
    (last.fn # "none") =>
        /\ Returned
        /\ \/ last.value = NullTriple
           \/ /\ last.value.data # None
              /\ last.value.pixel_bounds # None
              /\ last.value.geom # None

---------------------------------------------------------------------------
(* C10 *)

\* C10 (the window covers geometry + buffer): when extraction succeeds and the
\* buffered bounding box lies inside the Grid extent, every pixel (column c,
\* row r) whose cell [c, c+1) x [r, r+1) overlaps the buffered box is inside
\* the returned window: x_min <= c < x_max and y_min <= r < y_max.
C10_WindowCovers ==
    (Succeeded /\ InsideGrid(BufferedBox(last))) =>
        LET bb == BufferedBox(last)
            nw == lonlat_to_pixel(bb.west, bb.north)
            se == lonlat_to_pixel(bb.east, bb.south)
            w == WindowOf(last)
        IN  /\ \A c \in 0..(GRID_WIDTH - 1) :
                  (FLeq(FInt(c), se[1]) /\ FLess(nw[1], FInt(c + 1))) =>
                      (w[1] <= c /\ c < w[2])
            /\ \A r \in 0..(GRID_HEIGHT - 1) :
                  (FLeq(FInt(r), se[2]) /\ FLess(nw[2], FInt(r + 1))) =>
                      (w[3] <= r /\ r < w[4])

---------------------------------------------------------------------------
(* C11: the worked scenario *)

\* the scenario's box: lon [-112.5, -111.5], lat [33.5, 34.0]
ScenarioBox == box(Deg10(-1125), Deg10(335), Deg10(-1115), Deg10(340))

\* the last call is the scenario: the box, buffer_km = 5, a variable the dataset has
IsScenario ==
    /\ last.fn = "extract_raster_for_geometry"
    /\ last.geometry = ScenarioBox
    /\ last.buffer_km = 5
    /\ last.variable_name \in ds.data_vars

\* C11 as stated: the scenario returns a non-null window with x_min < x_max and
\* y_min < y_max whose width x_max - x_min is within a few pixels of 65.
C11_ScenarioWidth65 ==
    IsScenario =>
        /\ Succeeded
        /\ WindowOf(last)[1] < WindowOf(last)[2]
        /\ WindowOf(last)[3] < WindowOf(last)[4]
        /\ WindowOf(last)[2] - WindowOf(last)[1] \in 55..75

\* C11 amended: the scenario returns a non-null window with x_min < x_max and
\* y_min < y_max; its width x_max - x_min is 119 pixels (one degree of longitude
\* is about 109 columns, plus the buffer on both sides) and it is its height
\* y_max - y_min, 63 pixels, that is roughly 65.
C11_ScenarioWindow ==
    IsScenario =>
        /\ Succeeded
        /\ WindowOf(last)[1] < WindowOf(last)[2]
        /\ WindowOf(last)[3] < WindowOf(last)[4]
        /\ WindowOf(last)[2] - WindowOf(last)[1] = 119
        /\ WindowOf(last)[4] - WindowOf(last)[3] = 63

\* the scenario has been run and returned the window (1358, 1477, 1697, 1760)
C11_Witness ==
    /\ IsScenario
    /\ Succeeded
    /\ WindowOf(last) = <<1358, 1477, 1697, 1760>>

---------------------------------------------------------------------------
(* C12, C13: the projector *)

\* a projection call has been made
Projected == proj.fn # "none"

\* the geometry kinds that expose a vertex sequence
ExposesVertices(geom) == geom.type \in {"Polygon", "LineString", "Point"}

\* the vertex sequence: a polygon's exterior ring, a line's or point's own coordinates
VerticesOf(geom) == IF geom.type = "Polygon" THEN geom.exterior ELSE geom.coords

\* C12: for a geometry exposing a vertex sequence, geometry_to_pixel_coords
\* returns one point per vertex, in order, the i-th being the pixel position of
\* the i-th vertex less (x_offset, y_offset); a polygon contributes its exterior
\* ring only, a line or point its own coordinates.
C12_OnePointPerVertex ==
    Projected /\ ExposesVertices(proj.geometry) =>
        /\ proj.outcome = "return"
        /\ Len(proj.points) = Len(VerticesOf(proj.geometry))
        /\ \A i \in 1..Len(VerticesOf(proj.geometry)) :
              LET v == VerticesOf(proj.geometry)[i]
                  p == lonlat_to_pixel(v[1], v[2])
              IN  proj.points[i] = <<FSub(p[1], FInt(proj.x_offset)),
                                     FSub(p[2], FInt(proj.y_offset))>>

\* a polygon's ring of four vertices projected against a window origin that is
\* not the Grid's
C12_Witness ==
    /\ Projected
    /\ proj.geometry = Triangle
    /\ proj.x_offset > 0 /\ proj.y_offset > 0
    /\ proj.outcome = "return"
    /\ Len(proj.points) = 4

\* C13: for a geometry of an unsupported kind, such as the multi-part union of
\* several uploaded features, geometry_to_pixel_coords returns the empty
\* sequence and does not end with an error.
C13_UnsupportedGivesEmpty ==
    Projected /\ ~ExposesVertices(proj.geometry) =>
        /\ proj.outcome = "return"
        /\ proj.points = <<>>

---------------------------------------------------------------------------
(* C14: the caller's geometry *)

---------------------------------------------------------------------------
(* C15: purity *)

\* two extraction calls with the same function, variable, geometry and buffer
SameInputs(a, b) ==
    /\ a.fn # "none"
    /\ a.fn = b.fn
    /\ a.variable_name = b.variable_name
    /\ a.geometry = b.geometry
    /\ a.buffer_km = b.buffer_km

---------------------------------------------------------------------------
(* C16: the shared dataset *)

\* C16: once the dataset has been loaded in a process, no operation changes
\* its open/closed state: the object st.cache_resource holds, which every
\* later reader is handed, is open.
C16_DatasetStaysOpen ==
    \A p \in Procs : store.proc[p].cached => store.proc[p].handle = "open"

---------------------------------------------------------------------------
(* C17: concurrent calls *)

\* what the call of a thread returns when it runs alone
Alone(c) == extract_raster_for_geometry(ds, c.variable_name, c.geometry, c.buffer_km)

\* C17: when extraction calls of several threads interleave in any order, each
\* call ends as it would have run alone, with the same result, and the dataset
\* is left as it was.
C17_IndependentCalls ==
    /\ [](\A t \in Threads :
            calls[t].pc = "done" =>
                /\ calls[t].outcome = Alone(calls[t]).outcome
                /\ calls[t].exc = Alone(calls[t]).exc
                /\ calls[t].value = Alone(calls[t]).value)
    /\ [][ds' = ds]_vars

\* two calls with different geometries overlapped and both returned a window
C17_Witness ==
    /\ \A t \in Threads :
          /\ calls[t].pc = "done"
          /\ calls[t].overlapped
          /\ calls[t].outcome = "return"
          /\ calls[t].value.data # None
    /\ calls["t1"].geometry # calls["t2"].geometry
    /\ calls["t1"].value.pixel_bounds # calls["t2"].value.pixel_bounds

---------------------------------------------------------------------------
(* C18: placeholder on null *)

\* C18: every section whose extraction call gave the null result shows the
\* 'not available' placeholder; no section ends with neither a figure nor a
\* placeholder.
C18_PlaceholderOnNull ==
    \A i \in 1..Len(page.rendered) :
        page.result[i] = "null" => page.rendered[i] = "placeholder"

---------------------------------------------------------------------------
(* C19: the window of the specified algorithm *)

\* a pixel coordinate clamped into [0, size - 1] and then truncated to an integer
ClampThenTruncate(v, size) ==
    Floor(IF FLess(v, FInt(0)) THEN FInt(0)
          ELSE IF FLess(FInt(size - 1), v) THEN FInt(size - 1) ELSE v)

\* a < b for two finite numbers, by integer parts and then by the reciprocals
\* of the fractional parts, so that no product of large terms is formed
RECURSIVE Below(_, _)
Below(a, b) ==
    LET ra == a[1] - Floor(a) * a[2]
        rb == b[1] - Floor(b) * b[2]
    IN  IF Floor(a) # Floor(b) THEN Floor(a) < Floor(b)
        ELSE IF rb = 0 THEN FALSE
        ELSE IF ra = 0 THEN TRUE
        ELSE Below(<<b[2], rb>>, <<a[2], ra>>)

\* the least and the greatest of the k-th coordinates of a sequence of points
RECURSIVE Least(_, _, _)
Least(points, k, i) ==
    IF i = Len(points) THEN points[i][k]
    ELSE LET rest == Least(points, k, i + 1)
         IN  IF Below(rest, points[i][k]) THEN rest ELSE points[i][k]

RECURSIVE Greatest(_, _, _)
Greatest(points, k, i) ==
    IF i = Len(points) THEN points[i][k]
    ELSE LET rest == Greatest(points, k, i + 1)
         IN  IF Below(points[i][k], rest) THEN rest ELSE points[i][k]

\* the window of steps 1-4 of the specified algorithm: the buffered box's four
\* corners in pixel space, the least and greatest pixel x and pixel y, clamped
\* and truncated
FourCornerWindow(call) ==
    LET bb == BufferedBox(call)
        corners == << lonlat_to_pixel(bb.west, bb.north), lonlat_to_pixel(bb.east, bb.north),
                      lonlat_to_pixel(bb.west, bb.south), lonlat_to_pixel(bb.east, bb.south) >>
    IN  << ClampThenTruncate(Least(corners, 1, 1), GRID_WIDTH),
           ClampThenTruncate(Greatest(corners, 1, 1), GRID_WIDTH),
           ClampThenTruncate(Least(corners, 2, 1), GRID_HEIGHT),
           ClampThenTruncate(Greatest(corners, 2, 1), GRID_HEIGHT) >>

\* C19: for a geometry with minx <= maxx and miny <= maxy and buffer_km >= 0 the
\* window the code derives from the north-west and south-east corners is the
\* window of the specified four-corner algorithm: a call on an existing
\* variable returns that window, or the null triple when that window is
\* degenerate.
C19_TwoCornersAsFour ==
    HasBox(last) /\ Returned /\ last.variable_name \in ds.data_vars =>
        LET w == FourCornerWindow(last)
        IN  IF w[2] <= w[1] \/ w[4] <= w[3]
            THEN last.value = NullTriple
            ELSE /\ Succeeded
                 /\ WindowOf(last) = w

\* a buffered call on a box that reaches beyond the Grid's western edge
\* returned a window clamped at column 0
C19_Witness ==
    /\ Succeeded
    /\ last.buffer_km > 0
    /\ \E q \in Boxes : GeomOf(last) = q /\ ~InsideGrid(BufferedBox(last))
    /\ WindowOf(last) = FourCornerWindow(last)
    /\ WindowOf(last)[1] = 0

---------------------------------------------------------------------------
(* C20: the clamping range *)

\* the box of the whole Grid extent
WholeGrid ==
    box(FInt(CONUS_LON_MIN), FInt(CONUS_LAT_MIN), FInt(CONUS_LON_MAX), FInt(CONUS_LAT_MAX))

\* the call of a thread has computed its window
HasWindow(c) == c.pc \in {"check", "slice"} \/ (c.pc = "done" /\ c.outcome = "return")

\* C20: the four indices after clamping lie in 0 .. GRID_WIDTH-1 and
\* 0 .. GRID_HEIGHT-1; no returned array contains column GRID_WIDTH-1 or row
\* GRID_HEIGHT-1; and a geometry covering the whole Grid extent yields the
\* window (0, GRID_WIDTH-1, 0, GRID_HEIGHT-1).
C20_ClampingRange ==
    \A t \in Threads :
        /\ HasWindow(calls[t]) =>
              /\ calls[t].window[1] \in 0..(GRID_WIDTH - 1)
              /\ calls[t].window[2] \in 0..(GRID_WIDTH - 1)
              /\ calls[t].window[3] \in 0..(GRID_HEIGHT - 1)
              /\ calls[t].window[4] \in 0..(GRID_HEIGHT - 1)
        /\ calls[t].pc = "done" /\ calls[t].outcome = "return" /\ calls[t].value.data # None =>
              /\ calls[t].value.data.origin[2] + calls[t].value.data.shape[2] <= GRID_WIDTH - 1
              /\ calls[t].value.data.origin[1] + calls[t].value.data.shape[1] <= GRID_HEIGHT - 1
        /\ HasWindow(calls[t]) /\ calls[t].geometry = WholeGrid =>
              calls[t].window = <<0, GRID_WIDTH - 1, 0, GRID_HEIGHT - 1>>

\* a call on the whole Grid extent returned the window (0, 6434, 0, 2766) and an
\* array of 2766 rows and 6434 columns
C20_Witness ==
    \E t \in Threads :
        /\ calls[t].pc = "done"
        /\ calls[t].geometry = WholeGrid
        /\ calls[t].outcome = "return"
        /\ calls[t].value.data # None
        /\ calls[t].value.pixel_bounds.items = <<0, GRID_WIDTH - 1, 0, GRID_HEIGHT - 1>>
        /\ calls[t].value.data.shape = <<GRID_HEIGHT - 1, GRID_WIDTH - 1>>

---------------------------------------------------------------------------
(* C21: orientation of the transform *)

\* a point has been converted to pixel space
Converted == tr.stage # "none"

\* C21: lonlat_to_pixel maps the Grid's north-west corner to (0, 0) and its
\* south-east corner to (GRID_WIDTH, GRID_HEIGHT); every point of the Grid
\* extent maps into 0 <= px <= GRID_WIDTH, 0 <= py <= GRID_HEIGHT; and from one
\* converted point to the next, px grows strictly with lon and is the same for
\* the same lon whatever lat is, py falls strictly as lat grows and is the same
\* for the same lat whatever lon is.
C21_Orientation ==
    /\ [](Converted =>
            /\ (tr.lon = FInt(CONUS_LON_MIN) /\ tr.lat = FInt(CONUS_LAT_MAX)) =>
                  (tr.px = FInt(0) /\ tr.py = FInt(0))
            /\ (tr.lon = FInt(CONUS_LON_MAX) /\ tr.lat = FInt(CONUS_LAT_MIN)) =>
                  (tr.px = FInt(GRID_WIDTH) /\ tr.py = FInt(GRID_HEIGHT))
            /\ FLeq(FInt(0), tr.px) /\ FLeq(tr.px, FInt(GRID_WIDTH))
            /\ FLeq(FInt(0), tr.py) /\ FLeq(tr.py, FInt(GRID_HEIGHT)))
    /\ [][(Converted /\ tr'.stage = "pixel") =>
            /\ FLess(tr.lon, tr'.lon) => FLess(tr.px, tr'.px)
            /\ tr.lon = tr'.lon => tr.px = tr'.px
            /\ FLess(tr.lat, tr'.lat) => FLess(tr'.py, tr.py)
            /\ tr.lat = tr'.lat => tr.py = tr'.py]_vars

\* the south-east corner of the Grid has been converted to (6435, 2767)
C21_Witness ==
    /\ tr.stage = "pixel"
    /\ tr.lon = FInt(CONUS_LON_MAX) /\ tr.lat = FInt(CONUS_LAT_MIN)
    /\ tr.px = FInt(GRID_WIDTH) /\ tr.py = FInt(GRID_HEIGHT)

---------------------------------------------------------------------------
(* C22: the dataset is loaded once per process *)

\* C22: in each process xr.open_dataset makes at most one dataset object and
\* the file is downloaded at most once; once a call has been handed a dataset
\* object every later call is handed the same one; and a call that finds the
\* cached file present does not go on to request the remote file.
C22_LoadedOnce ==
    /\ [](\A p \in Procs : store.proc[p].opens <= 1 /\ store.proc[p].downloads <= 1)
    /\ [][\A p \in Procs :
            /\ store.proc[p].object # 0 =>
                  store'.proc[p].object = store.proc[p].object
            /\ (store.proc[p].pc = "check" /\ store.file.exists) =>
                  store'.proc[p].pc # "request"
            /\ store'.proc[p].downloads > store.proc[p].downloads =>
                  store.proc[p].downloads = 0]_vars

\* a process that downloaded and opened the file once has since been handed
\* the same object again: the call that returned the dataset came after
\* get_netcdf_variables had closed it
C22_Witness ==
    \E p \in Procs :
        /\ store.proc[p].downloads = 1 /\ store.proc[p].opens = 1
        /\ store.proc[p].pc = "idle" /\ store.proc[p].got = "dataset"
        /\ store.proc[p].handle = "closed" /\ store.proc[p].object = 1

---------------------------------------------------------------------------
(* C23: only a complete cached file is opened *)

\* C23: no process opens as its dataset a cached file that does not hold the
\* complete download.
C23_CompleteFileOnly ==
    \A p \in Procs : store.proc[p].opened # "partial"

---------------------------------------------------------------------------
(* C24: geometry smaller than a pixel *)

\* the bounding box of a call's geometry, without the buffer
GeometryBox(call) == BufferedBox([call EXCEPT !.buffer_km = 0])

\* the west and east edges of the buffered box fall to the same integer column,
\* or its north and south edges to the same integer row
SubPixel(call) ==
    LET bb == BufferedBox(call)
        nw == lonlat_to_pixel(bb.west, bb.north)
        se == lonlat_to_pixel(bb.east, bb.south)
    IN  PyInt(nw[1]) = PyInt(se[1]) \/ PyInt(nw[2]) = PyInt(se[2])

\* C24: an extraction for a geometry inside the Grid extent whose buffered
\* bounding box has west and east edges truncating to the same column, or north
\* and south edges truncating to the same row, returns (None, None, None),
\* whether or not the dataset has the variable; so does every extraction with
\* buffer_km = 0 for a geometry inside the Grid extent whose bounding box has
\* no width or no height, a point included.
C24_SubPixelRejected ==
    (HasBox(last) /\ InsideGrid(GeometryBox(last))) =>
        /\ SubPixel(last) => (Returned /\ last.value = NullTriple)
        /\ (/\ last.buffer_km = 0
            /\ \/ GeometryBox(last).west = GeometryBox(last).east
               \/ GeometryBox(last).south = GeometryBox(last).north) =>
              (Returned /\ last.value = NullTriple)

\* a strip one degree wide and less than a row high, extracted with no buffer
\* for a variable the dataset has, came back as the null triple
C24_Witness ==
    /\ HasBox(last) /\ InsideGrid(GeometryBox(last))
    /\ last.buffer_km = 0
    /\ last.variable_name \in ds.data_vars
    /\ FLess(GeometryBox(last).west, GeometryBox(last).east)
    /\ FLess(GeometryBox(last).south, GeometryBox(last).north)
    /\ PyInt(lonlat_to_pixel(GeometryBox(last).west, GeometryBox(last).north)[1])
          < PyInt(lonlat_to_pixel(GeometryBox(last).east, GeometryBox(last).south)[1])
    /\ SubPixel(last)
    /\ Returned /\ last.value = NullTriple

---------------------------------------------------------------------------
(* C25: the outline lands on the slice *)

\* the outline of the geometry of the last extraction has been projected with
\* the origin of the window that extraction returned
OutlineOnWindow ==
    /\ Succeeded
    /\ Projected /\ proj.outcome = "return"
    /\ proj.geometry = last.value.geom
    /\ proj.x_offset = WindowOf(last)[1]
    /\ proj.y_offset = WindowOf(last)[3]

\* C25: when an extraction for a geometry inside the Grid extent succeeds with
\* window (x_min, x_max, y_min, y_max), every point (x, y) that
\* geometry_to_pixel_coords(geometry, x_min, y_min) returns has
\* 0 <= x <= (x_max - x_min) + 1 and 0 <= y <= (y_max - y_min) + 1.
C25_OutlineOnSlice ==
    (OutlineOnWindow /\ InsideGrid(GeometryBox(last))) =>
        LET w == WindowOf(last)
        IN  \A i \in 1..Len(proj.points) :
               /\ FLeq(FInt(0), proj.points[i][1])
               /\ FLeq(proj.points[i][1], FInt((w[2] - w[1]) + 1))
               /\ FLeq(FInt(0), proj.points[i][2])
               /\ FLeq(proj.points[i][2], FInt((w[4] - w[3]) + 1))

\* an outline projected against a window whose origin is not the Grid's, with
\* a vertex past the last column of the slice, inside the one-pixel allowance
C25_Witness ==
    /\ OutlineOnWindow /\ InsideGrid(GeometryBox(last))
    /\ proj.x_offset > 0 /\ proj.y_offset > 0
    /\ \E i \in 1..Len(proj.points) :
          /\ FLess(FInt(WindowOf(last)[2] - WindowOf(last)[1]), proj.points[i][1])
          /\ FLeq(proj.points[i][1], FInt((WindowOf(last)[2] - WindowOf(last)[1]) + 1))

---------------------------------------------------------------------------
(* C26: the window depends on the geometry and the buffer only *)

\* the call kept and the last call are extractions for the same geometry and
\* buffer, each for a variable the dataset has
SameArea ==
    /\ memo.fn = "extract_raster_for_geometry" /\ last.fn = "extract_raster_for_geometry"
    /\ memo.geometry = last.geometry /\ memo.buffer_km = last.buffer_km
    /\ memo.variable_name \in ds.data_vars /\ last.variable_name \in ds.data_vars

\* C26: two extractions for the same geometry and buffer_km, for variables the
\* dataset has, end the same way and return the same pixel window, whatever the
\* variables and the values of their arrays; the slices have the same shape.
C26_WindowByAreaOnly ==
    SameArea =>
        /\ memo.outcome = last.outcome /\ memo.exc = last.exc
        /\ (memo.outcome = "return") =>
              /\ memo.value.pixel_bounds = last.value.pixel_bounds
              /\ (memo.value.data = None) <=> (last.value.data = None)
              /\ (memo.value.data # None) =>
                    /\ memo.value.data.shape = last.value.data.shape
                    /\ memo.value.geom = last.value.geom

\* two successful extractions for the same area, one of the land-cover classes
\* and one of the vegetation index, whose arrays differ
C26_Witness ==
    /\ SameArea
    /\ memo.variable_name = "LCZ_2020" /\ last.variable_name = "NDVI_mean_2015"
    /\ memo.outcome = "return" /\ memo.value.data # None
    /\ last.outcome = "return" /\ last.value.data # None
    /\ memo.value.data # last.value.data
    /\ memo.value.pixel_bounds = last.value.pixel_bounds

---------------------------------------------------------------------------
(* C27: a container stands for its first row *)

\* the last call was handed a GeoDataFrame of one or more rows
OnContainer ==
    /\ last.fn \in {"extract_raster_for_geometry", "extract_raster_for_city"}
    /\ hasattr(last.geometry, "geometry")
    /\ Len(last.geometry.geometry.iloc) >= 1

\* C27: extract_raster_for_geometry and extract_raster_for_city, handed a
\* GeoDataFrame of one or more rows, end as extract_raster_for_geometry does
\* when called on the first row's geometry with the same variable and
\* buffer_km, with the same result; the geometry returned is the first row's,
\* and the rows after the first have no part in it.
C27_FirstRowOnly ==
    OnContainer =>
        LET first == last.geometry.geometry.iloc[1]
            direct == extract_raster_for_geometry(ds, last.variable_name, first,
                                                  last.buffer_km)
        IN  /\ last.outcome = direct.outcome
            /\ last.exc = direct.exc
            /\ last.value = direct.value
            /\ Succeeded => last.value.geom = first

\* a frame of two different rows gave the window and the geometry of its first
\* row, whose bounding box is not the second row's
C27_Witness ==
    /\ OnContainer
    /\ Len(last.geometry.geometry.iloc) = 2
    /\ Bounds(last.geometry.geometry.iloc[1]) # Bounds(last.geometry.geometry.iloc[2])
    /\ Succeeded
    /\ last.value.geom = last.geometry.geometry.iloc[1]

---------------------------------------------------------------------------
(* C28, C29: filter_data *)

\* a criterion is supplied when it is neither omitted nor false in a test
Supplied(criterion) == Truthy(criterion)

\* a row matches a criterion: membership for a list, equality for a single value
Matches(row, keyword, criterion) ==
    IF criterion.type = "list"
    THEN \E k \in 1..Len(criterion.items) : criterion.items[k] = row[ColumnOf(keyword)]
    ELSE row[ColumnOf(keyword)] = criterion

\* a row matches every supplied criterion
MatchesAll(row, criteria) ==
    \A keyword \in DOMAIN criteria :
        Supplied(criteria[keyword]) => Matches(row, keyword, criteria[keyword])

\* C28: filter_data returns exactly the rows of the input table that match all
\* supplied criteria (equality for a single value, membership for a list), in
\* their original order and under their original labels; the input table is as
\* it was; filtering the result again by the same criteria returns the same
\* rows; and applying some of the criteria first and the rest to what that
\* returned gives the same rows, whichever are applied first.
C28_ConjunctiveFilter ==
    /\ (flt.stage # "none") =>
          /\ flt.result.rows = SelectSeq(flt.df.rows, LAMBDA r : MatchesAll(r, flt.criteria))
          /\ flt.df_after = flt.df
    /\ (flt.stage = "again") => flt.again = flt.result
    /\ (flt.stage = "chained") => flt.chained = flt.result

\* a table of two rows filtered by a city, a list of years and a list of
\* classes: one row was kept and one dropped
C28_Witness ==
    /\ flt.stage = "chained"
    /\ Len(flt.df.rows) = 2 /\ Len(flt.result.rows) = 1
    /\ flt.result.rows[1] = flt.df.rows[2]
    /\ flt.criteria.city.type = "str" /\ Supplied(flt.criteria.city)
    /\ flt.criteria.year.type = "list" /\ Supplied(flt.criteria.year)
    /\ flt.criteria.lcz_class.type = "list" /\ Supplied(flt.criteria.lcz_class)
    /\ flt.chained = flt.result

\* C29: a criterion that is an empty list, 0 or an empty string is treated as
\* an omitted one: the call returns what the call with that criterion left out
\* returns, so filter_data(df, city=[]) returns every row of df.
C29_EmptyMeansNoFilter ==
    (flt.stage # "none") =>
        /\ \A keyword \in DOMAIN flt.criteria :
              (flt.criteria[keyword] # None /\ ~Truthy(flt.criteria[keyword])) =>
                  flt.result = filter_data(flt.df,
                                   [flt.criteria EXCEPT ![keyword] = None]).value
        /\ (\A keyword \in DOMAIN flt.criteria :
               keyword # "city" => flt.criteria[keyword] = None)
           /\ flt.criteria.city = PyList(<<>>)
           => flt.result.rows = flt.df.rows

\* filter_data(df, city=[]) on a table of two rows returned both
C29_Witness ==
    /\ flt.stage = "called"
    /\ flt.criteria = [NoCriteria EXCEPT !.city = PyList(<<>>)]
    /\ Len(flt.df.rows) = 2
    /\ flt.result.rows = flt.df.rows

---------------------------------------------------------------------------
(* C30: which drawing becomes the study area *)

\* parse_drawn_geometry has been called
Parsed == drawn.fn # "none"

\* the drawing is a feature whose geometry is a Polygon
DrawsPolygon(d) == d # None /\ "geometry" \in d.keys /\ d.geometry.kind = "Polygon"

\* the map data has a last active drawing that is a Polygon
ActiveIsPolygon ==
    /\ drawn.map_data # None
    /\ "last_active_drawing" \in drawn.map_data.keys
    /\ DrawsPolygon(drawn.map_data.last_active_drawing)

\* the places in all_drawings that hold a Polygon
PolygonPlaces ==
    IF /\ drawn.map_data # None
       /\ "all_drawings" \in drawn.map_data.keys
       /\ drawn.map_data.all_drawings # None
    THEN {i \in 1..Len(drawn.map_data.all_drawings.items) :
             DrawsPolygon(drawn.map_data.all_drawings.items[i])}
    ELSE {}

\* the (lon, lat) vertices of the first ring of a drawing
OuterRing(d) ==
    [i \in 1..Len(d.geometry.coordinates[1]) |->
        <<d.geometry.coordinates[1][i][1], d.geometry.coordinates[1][i][2]>>]

\* C30: parse_drawn_geometry returns the polygon of last_active_drawing when
\* that drawing is a Polygon; otherwise the first Polygon of all_drawings in
\* list order; and None when map_data is None or empty or holds no Polygon
\* drawing.  The polygon returned has exactly the vertices of the first
\* (outer) ring of the drawing it was taken from.
C30_DrawnSelection ==
    Parsed =>
        /\ drawn.outcome = "return"
        /\ IF ActiveIsPolygon
           THEN /\ drawn.value.type = "Polygon"
                /\ drawn.value.exterior = OuterRing(drawn.map_data.last_active_drawing)
           ELSE IF PolygonPlaces # {}
           THEN \E i \in PolygonPlaces :
                   /\ \A j \in PolygonPlaces : i <= j
                   /\ drawn.value.type = "Polygon"
                   /\ drawn.value.exterior =
                         OuterRing(drawn.map_data.all_drawings.items[i])
           ELSE drawn.value = None

\* the last active drawing is a line and all_drawings holds two polygons: the
\* first of them, a rectangle with a hole, came back as its outer ring alone
C30_Witness ==
    /\ Parsed /\ drawn.map_data # None
    /\ "last_active_drawing" \in drawn.map_data.keys
    /\ drawn.map_data.last_active_drawing = DrawnLine
    /\ drawn.map_data.all_drawings = PyList(<<DrawnRectangle, DrawnTriangle>>)
    /\ drawn.value.type = "Polygon"
    /\ Len(drawn.value.exterior) = 5
    /\ drawn.value.exterior[1] = <<Deg10(-900), Deg10(400)>>

=============================================================================
